---- MODULE Spec2Model ----
(***************************************************************************)
(* A model of the navi-agent orchestration code.                           *)
(*                                                                         *)
(* Two programs of the repository are modelled, selected by `variant`:     *)
(*   "main" : src/main.py driving the graph built by                       *)
(*            src/src/agent/agent.py (call_model, ToolNode,                *)
(*            should_continue);                                            *)
(*   "copy" : the graph of "main copy.py" (second half of                  *)
(*            src/gradio_main.py): Assistant, tool_node_with_fallback,     *)
(*            tools_condition.                                             *)
(* A third specification, SpecRouter, applies the two routing functions    *)
(* to every message shape.                                                 *)
(*                                                                         *)
(* Text is modelled as a tuple of tokens: <<>> is the empty string, and a  *)
(* formatted string such as f"Tool {name} not found" is the tuple          *)
(* <<"Tool", name, "not found">>.                                          *)
(***************************************************************************)
EXTENDS Naturals, Sequences, FiniteSets

VARIABLES
    variant,     \* which program runs: "main" | "copy" | "router"
    mergeById,   \* build of langgraph's add_messages: ids of the update deduplicated too
    messages,    \* main.py: the session's list `messages`
    gstate,      \* agent.py: the graph's MessagesState["messages"] channel
    cstate,      \* main copy.py: the graph's State["messages"] channel
    alocal,      \* main copy.py: Assistant.__call__'s local state["messages"]
    pc,          \* control position of the driver
    next,        \* the graph's next node
    phase,       \* AWAITING_MODEL | AWAITING_TOOLS | TERMINATED
    events,      \* what the driver has shown for the current turn
    outcome,     \* how the current turn ended: "none" | "completed" | "failed"
    lastInvoke,  \* the history handed to the Model Client at its last invocation
    invoked,     \* Model Client invocations since the turn began or the last dispatch
    retries,     \* Assistant.__call__: corrective re-prompts in the current call
    batch,       \* the tool calls of the last dispatch
    results,     \* what the last dispatch returned
    executed,    \* tool-call ids whose execution function ran in the last dispatch
    turns,       \* user messages submitted so far
    rounds,      \* dispatch batches so far
    nextId,      \* next fresh message id
    failure,     \* the exception that ended the current turn ("none" when none did)
    runs,        \* tool-call ids handed to tool.invoke during the current turn, in order
    rin,         \* SpecRouter: the router's input
    rdec,        \* SpecRouter: the decisions taken on rin
    rfb,         \* SpecRouter: what tool_node_with_fallback returned on rin
    cin,         \* SpecCoerce: the tool call under validation
    cout,        \* SpecCoerce: what the tool's function received
    boot,        \* SpecBoot: the AGENT global, the agents created, each session's position
    tin,         \* tool specifications: the arguments the tool's function runs on
    tloc         \* tool specifications: the function's locals and what it returned

vars == <<variant, mergeById, messages, gstate, cstate, alocal, pc, next, phase,
          events, outcome, lastInvoke, invoked, retries, batch, results,
          executed, turns, rounds, nextId, failure, runs, rin, rdec, rfb,
          cin, cout, boot, tin, tloc>>

----------------------------------------------------------------------------
(* Bounds of the model *)

MaxTurns == 2
MaxRounds == 2
MaxRetries == 26
MaxApplications == 2
MaxServed == 2

----------------------------------------------------------------------------
(* Messages *)

\* A tool_call_id that is absent.  A message whose id is None has id 0.
NoId == <<>>

Msg(role, content, tool_calls, tool_call_id, id) ==
    [role |-> role, content |-> content, tool_calls |-> tool_calls,
     tool_call_id |-> tool_call_id, id |-> id]

SYSTEM_PROMPT == <<"SYSTEM_PROMPT">>

SystemMessage(content, id) == Msg("system", content, <<>>, NoId, id)
HumanMessage(content, id) == Msg("user", content, <<>>, NoId, id)
AIMessage(content, tool_calls, id) == Msg("assistant", content, tool_calls, NoId, id)
ToolMessage(content, tool_call_id, id) == Msg("tool", content, <<>>, tool_call_id, id)

NoMsg == Msg("none", <<>>, <<>>, NoId, 0)

Last(s) == s[Len(s)]

----------------------------------------------------------------------------
(* Tools *)

\* agent.py: the list `tools` handed to ToolNode and bind_tools.
AgentTools ==
    {"calculate_option_profit", "get_weather", "get_coolest_cities",
     "calculate_compound_interest", "analyze_single_stock_and_fixed_savings",
     "calculate_401k_retirement", "calculate_home_affordability",
     "calculate_loan", "calculate_financial_freedom"}

\* main copy.py: the module-level list `tools`.
CopyTools == {"calculate_option_profit", "get_weather", "get_coolest_cities"}

\* main.py: the names its module namespace binds (none of them a tool),
\* the ones the interpreter sets for a script included.
MainGlobals ==
    {"SystemMessage", "HumanMessage", "AIMessage", "create_agent",
     "SYSTEM_PROMPT", "main", "__annotations__", "__builtins__", "__cached__",
     "__doc__", "__file__", "__loader__", "__name__", "__package__",
     "__spec__"}

\* The names of the namespace of a script whose value is None or empty
\* (main.py and app.py are run as scripts): `if tool_func:` (main.py 34,
\* app.py 43) skips them as it skips a name that is not bound.
FalsyGlobals ==
    {"__annotations__", "__cached__", "__doc__", "__package__", "__spec__"}

\* Arguments are a set of <<parameter, value>> pairs.  A value is a text, a
\* number (in thousandths: 0.045 is 45, 500.0 is 500000), None, a list of
\* texts or a dict of texts to numbers.  The text "True" stands for the
\* bool True.
Text(s) == [kind |-> "text", s |-> s, n |-> 0]
Num(n) == [kind |-> "num", s |-> "", n |-> n]
NoneValue == [kind |-> "none", s |-> "", n |-> 0]
ListValue == [kind |-> "list", s |-> "", n |-> 0]
DictValue == [kind |-> "dict", s |-> "", n |-> 0]

NoArgs == {}
HasArg(args, p) == \E a \in args : a[1] = p
ArgOf(args, p) == (CHOOSE a \in args : a[1] = p)[2]

\* The parameters without a default in each tool's signature.
RequiredParams(name) ==
    CASE name = "get_weather" -> {"location"}
      [] name = "get_coolest_cities" -> {}
      [] name = "calculate_option_profit" ->
            {"current_price", "strike_price", "days_to_expiry", "option_type",
             "initial_price"}
      [] name = "calculate_compound_interest" ->
            {"start_age", "monthly_investment", "annual_return", "future_age"}
      [] name = "analyze_single_stock_and_fixed_savings" ->
            {"symbols", "start_date", "end_date", "monthly_investment",
             "allocations", "savings_rates"}
      [] name = "calculate_401k_retirement" ->
            {"current_age", "retirement_age", "annual_salary",
             "contribution_percentage", "employer_match_percentage",
             "employer_match_limit", "annual_return"}
      [] name = "calculate_home_affordability" ->
            {"annual_income", "down_payment", "loan_term_years",
             "interest_rate", "monthly_debt"}
      [] name = "calculate_loan" ->
            {"loan_amount", "loan_term_years", "interest_rate"}
      [] name = "calculate_financial_freedom" ->
            {"current_savings", "monthly_expenses", "annual_growth_rate"}
      [] OTHER -> {}

\* The parameters with a default in each tool's signature, with the default.
Defaults(name) ==
    CASE name = "calculate_option_profit" ->
            {<<"contracts", Num(1000)>>, <<"interest_rate", Num(50)>>}
      [] name = "calculate_compound_interest" ->
            {<<"stop_investing_age", NoneValue>>, <<"initial_investment", Num(0)>>}
      [] name = "calculate_401k_retirement" ->
            {<<"current_401k_balance", Num(0)>>, <<"salary_increase_rate", Num(2000)>>,
             <<"expected_inflation_rate", Num(2500)>>,
             <<"catch_up_contributions", Text("True")>>,
             <<"employer_match_dollar_limit", NoneValue>>,
             <<"employer_annual_max_match", NoneValue>>}
      [] name = "calculate_home_affordability" ->
            {<<"monthly_hoa_pmi", Num(0)>>, <<"property_tax_rate", Num(1100)>>,
             <<"home_insurance_rate", Num(500)>>, <<"desired_home_price", NoneValue>>,
             <<"max_dti_ratio", Num(43000)>>, <<"front_end_dti_ratio", Num(28000)>>,
             <<"min_down_payment_percent", Num(3500)>>}
      [] name = "calculate_loan" -> {<<"start_date", NoneValue>>}
      [] name = "calculate_financial_freedom" ->
            {<<"expected_inflation_rate", Num(2500)>>,
             <<"additional_monthly_savings", Num(0)>>,
             <<"withdrawal_strategy", Text("inflation_adjusted")>>,
             <<"target_end_balance", Num(0)>>}
      [] OTHER -> {}

OptionalParams(name) == {d[1] : d \in Defaults(name)}

\* The parameters each tool's signature annotates as int or float
\* (Optional[int], Optional[float] included).
NumericParams(name) ==
    CASE name = "calculate_option_profit" ->
            {"current_price", "strike_price", "days_to_expiry", "initial_price",
             "contracts", "interest_rate"}
      [] name = "calculate_compound_interest" ->
            {"start_age", "monthly_investment", "annual_return", "future_age",
             "stop_investing_age", "initial_investment"}
      [] name = "analyze_single_stock_and_fixed_savings" -> {"monthly_investment"}
      [] name = "calculate_401k_retirement" ->
            (RequiredParams(name) \cup OptionalParams(name)) \ {"catch_up_contributions"}
      [] name = "calculate_home_affordability" ->
            RequiredParams(name) \cup OptionalParams(name)
      [] name = "calculate_loan" -> RequiredParams(name)
      [] name = "calculate_financial_freedom" ->
            (RequiredParams(name) \cup OptionalParams(name)) \ {"withdrawal_strategy"}
      [] OTHER -> {}

\* The numeric parameters annotated int or Optional[int].
IntParams(name) ==
    CASE name = "calculate_option_profit" -> {"days_to_expiry", "contracts"}
      [] name = "calculate_compound_interest" ->
            {"start_age", "future_age", "stop_investing_age"}
      [] name = "calculate_401k_retirement" -> {"current_age", "retirement_age"}
      [] name = "calculate_home_affordability" -> {"loan_term_years"}
      [] OTHER -> {}

\* The parameters annotated Optional[...]: None is a value of theirs.
NoneParams(name) ==
    CASE name = "calculate_compound_interest" ->
            {"stop_investing_age", "initial_investment"}
      [] name = "calculate_401k_retirement" ->
            {"employer_match_dollar_limit", "employer_annual_max_match"}
      [] name = "calculate_home_affordability" -> {"desired_home_price"}
      [] name = "calculate_loan" -> {"start_date"}
      [] OTHER -> {}

\* The annotation of parameter p of a tool: int, float, bool, List[str]
\* (symbols), Dict[str, float] (allocations, savings_rates) or str, and
\* whether it is Optional.
FieldType(name, p) ==
    [kind |-> IF p \in NumericParams(name)
              THEN IF p \in IntParams(name) THEN "int" ELSE "float"
              ELSE IF name = "calculate_401k_retirement" /\ p = "catch_up_contributions"
              THEN "bool"
              ELSE IF name = "analyze_single_stock_and_fixed_savings" /\ p = "symbols"
              THEN "list"
              ELSE IF name = "analyze_single_stock_and_fixed_savings"
                      /\ p \in {"allocations", "savings_rates"}
              THEN "dict"
              ELSE "str",
     optional |-> p \in NoneParams(name)]

\* The texts of the model that spell a number, and the number they spell.
NumberText(s) == s \in {"500", "12"}
ParseNumber(s) == CASE s = "500" -> 500000 [] s = "12" -> 12000 [] OTHER -> 0

\* The validation of one field by the tool's args_schema.  None is accepted
\* by an Optional field only.  An int/float field converts a text that
\* spells a number and rejects any other text, a list and a dict; an int
\* field rejects a number with a fractional part.  A bool field takes the
\* text "True" and the numbers 0 and 1.  A str, list or dict field takes a
\* value of its own kind only.
Coerce_asGiven(type, v) == [ok |-> TRUE, v |-> v]

Coerce(type, v) ==
    CASE v.kind = "none" -> [ok |-> type.optional, v |-> v]
      [] type.kind \in {"int", "float"} /\ v.kind = "text" ->
            IF NumberText(v.s) THEN [ok |-> TRUE, v |-> Num(ParseNumber(v.s))]
            ELSE [ok |-> FALSE, v |-> v]
      [] type.kind \in {"int", "float"} /\ v.kind = "num" ->
            [ok |-> type.kind = "float" \/ v.n % 1000 = 0, v |-> v]
      [] type.kind = "bool" /\ v.kind = "text" -> [ok |-> v.s = "True", v |-> v]
      [] type.kind = "bool" /\ v.kind = "num" ->
            [ok |-> v.n \in {0, 1000},
             v |-> IF v.n = 1000 THEN Text("True") ELSE Text("False")]
      [] type.kind = "str" -> [ok |-> v.kind = "text", v |-> v]
      [] type.kind = "list" -> [ok |-> v.kind = "list", v |-> v]
      [] type.kind = "dict" -> [ok |-> v.kind = "dict", v |-> v]
      [] OTHER -> [ok |-> FALSE, v |-> v]

\* What the function body receives: the validated values of the declared
\* parameters that were given, and the defaults of those that were not.
Received(name, args) ==
    {<<a[1], Coerce(FieldType(name, a[1]), a[2]).v>> :
        a \in {b \in args : b[1] \in RequiredParams(name) \cup OptionalParams(name)}}
    \cup {d \in Defaults(name) : ~HasArg(args, d[1])}

\* str.lower() on the location values of the model.
Lower(s) == CASE s = "SF" -> "sf" [] OTHER -> s

get_weather(args) ==
    IF Lower(ArgOf(args, "location").s) \in {"sf", "san francisco"}
    THEN <<"It's 60 degrees and foggy.">>
    ELSE <<"It's 90 degrees and sunny.">>

get_coolest_cities == <<"nyc, sf">>

\* Whether the body of a tool returns or raises on validated arguments.
\* get_weather and get_coolest_cities have nothing that raises, and the body
\* of analyze_single_stock_and_fixed_savings is inside try/except Exception;
\* the other bodies may raise (calculate_loan, calculate_home_affordability
\* divide by zero on some arguments), which depends on the values and is
\* left open here.
BodyOutcomes(name) ==
    IF name \in {"get_weather", "get_coolest_cities",
                 "analyze_single_stock_and_fixed_savings"}
    THEN {"returns"}
    ELSE {"returns", "raises"}

\* tool.invoke(args): the arguments are validated against the signature (a
\* missing required parameter or a declared field whose value is not
\* accepted raises ValidationError and the function is not entered), then
\* the function body runs on the validated arguments and returns or raises
\* as `body` tells.  [raised, entered, value, received]: value is the
\* returned text, or the exception's text.
ToolInvoke(name, args, body) ==
    IF \/ \E p \in RequiredParams(name) : ~HasArg(args, p)
       \/ \E a \in args : /\ a[1] \in RequiredParams(name) \cup OptionalParams(name)
                           /\ ~Coerce(FieldType(name, a[1]), a[2]).ok
    THEN [raised |-> TRUE, entered |-> FALSE, value |-> <<"ValidationError", name>>,
          received |-> {}]
    ELSE IF body = "raises"
    THEN [raised |-> TRUE, entered |-> TRUE, value |-> <<"BodyError", name>>,
          received |-> Received(name, args)]
    ELSE [raised |-> FALSE, entered |-> TRUE,
          value |-> CASE name = "get_weather" -> get_weather(Received(name, args))
                      [] name = "get_coolest_cities" -> get_coolest_cities
                      [] OTHER -> <<name, "report">>,
          received |-> Received(name, args)]

----------------------------------------------------------------------------
(* The Model Client's possible turns (ChatOllama behind bind_tools) *)

Req(name, args) == [name |-> name, args |-> args]

rWeather == Req("get_weather", {<<"location", Text("SF")>>})
rWeatherNoArg == Req("get_weather", NoArgs)
rCities == Req("get_coolest_cities", NoArgs)
rUnknown == Req("doesNotExist", NoArgs)
rAgent == Req("AGENT", NoArgs)
rModuleName == Req("__name__", NoArgs)

\* The dispatch batches the Model Client may request.
Batches ==
    {<<rWeather>>, <<rCities, rUnknown>>, <<rWeatherNoArg, rCities>>,
     <<rCities, rUnknown, rWeather>>, <<rWeather, rAgent>>,
     <<rModuleName>>}

Turn(content, calls) == [content |-> content, calls |-> calls]

FinalTurns == {Turn(<<>>, <<>>), Turn(<<"answer">>, <<>>)}
ToolTurns == {Turn(<<>>, b) : b \in Batches} \cup {Turn(<<"checking">>, <<rWeather>>)}

UserInputs == {<<"hi">>}

\* The AIMessage the provider builds from a turn: every tool call gets an id.
ToolCalls(calls, mid) ==
    [i \in 1..Len(calls) |->
        [id |-> <<mid, i>>, name |-> calls[i].name, args |-> calls[i].args]]

Response(turn, mid) == AIMessage(turn.content, ToolCalls(turn.calls, mid), mid)

----------------------------------------------------------------------------
(* langgraph's MessagesState reducer, add_messages(left, right) *)

\* The index the reducer's id map gives for `id` among s[1..n]: a dict
\* comprehension keeps the last index of an id; 0 when the id is absent.
IdxOf(s, n, id) ==
    IF \E i \in 1..n : s[i].id = id
    THEN CHOOSE i \in 1..n : s[i].id = id /\ \A j \in (i+1)..n : s[j].id # id
    ELSE 0

\* What the reducer's loop over the update leaves in `merged`.  A message of
\* the update whose id is in the id map replaces the message at that index,
\* any other is appended.  An id of `left` is always in the map; an id that
\* was appended is in it only when the build registers appended ids
\* (dedupe).  So a message of `left` ends as the last message of the update
\* mapped to its index; the appended part is every message of the update
\* with an id foreign to `left`, or with dedupe one message for each such id,
\* at the place of its first occurrence and with its last value.
LastWithId(right, id) ==
    CHOOSE k \in 1..Len(right) :
        right[k].id = id /\ \A j \in (k + 1)..Len(right) : right[j].id # id

add_messages(left, right, dedupe) ==
    LET nleft == Len(left)
        idx == [k \in 1..Len(right) |-> IdxOf(left, nleft, right[k].id)]
        hits(i) == {k \in 1..Len(right) : idx[k] = i}
        kept == [i \in 1..nleft |->
                    IF hits(i) = {} THEN left[i]
                    ELSE right[CHOOSE k \in hits(i) : \A j \in hits(i) : j <= k]]
        at == [k \in 1..Len(right) |-> k]
        foreign == SelectSeq(at, LAMBDA k : idx[k] = 0)
        first == SelectSeq(foreign,
                           LAMBDA k : \A j \in 1..(k - 1) : right[j].id # right[k].id)
    IN IF dedupe
       THEN kept \o [n \in 1..Len(first) |-> right[LastWithId(right, right[first[n]].id)]]
       ELSE kept \o [n \in 1..Len(foreign) |-> right[foreign[n]]]

----------------------------------------------------------------------------
(* src/src/agent/agent.py *)

END == "END"

\* should_continue(state): routes on the last message of the state.
should_continue_noCalls(msgs) ==
    IF Last(msgs).role = "assistant" /\ Last(msgs).content # <<>>
    THEN "tools" ELSE END

should_continue_anyMessage(msgs) ==
    IF \E i \in 1..Len(msgs) : msgs[i].role = "assistant" /\ msgs[i].tool_calls # <<>>
    THEN "tools" ELSE END

should_continue_anyAssistant(msgs) ==
    IF Last(msgs).role = "assistant" THEN "tools" ELSE END

should_continue(msgs) ==
    IF Last(msgs).role = "assistant" /\ Last(msgs).tool_calls # <<>>
    THEN "tools" ELSE END

\* call_model(state): the history handed to model_with_tools.invoke.
ModelInput(msgs) ==
    IF msgs = <<>> \/ msgs[1].role # "system"
    THEN <<SystemMessage(SYSTEM_PROMPT, 0)>> \o msgs
    ELSE msgs

\* ToolNode(tools) on one tool call: the ToolMessage it produces.  An unknown
\* name and an exception raised by the tool both become an error message for
\* that call (handle_tool_errors).  The bodies of the tools a session calls
\* (Batches) return.
ToolNodeRun(call, id) ==
    IF call.name \notin AgentTools
    THEN ToolMessage(<<"Error:", call.name, "is not a valid tool">>, call.id, id)
    ELSE LET r == ToolInvoke(call.name, call.args, "returns")
         IN IF r.raised
            THEN ToolMessage(<<"Error:">> \o r.value \o <<"Please fix your mistakes.">>,
                             call.id, id)
            ELSE ToolMessage(r.value, call.id, id)

IdsOf(calls) == [i \in 1..Len(calls) |-> calls[i].id]

\* ToolNode(tools) on the last AIMessage: one ToolMessage per call, in order.
ToolNode(msgs, firstId) ==
    LET calls == Last(msgs).tool_calls
    IN [i \in 1..Len(calls) |-> ToolNodeRun(calls[i], firstId + i - 1)]

\* agent.py 59 and main copy.py 315: the edge leaving the "tools" node.
EdgeFromTools_end == END

EdgeFromTools == "agent"

EdgeFromToolsCopy == "assistant"

PhaseOf(node) ==
    CASE node = "agent" -> "AWAITING_MODEL"
      [] node = "assistant" -> "AWAITING_MODEL"
      [] node = "tools" -> "AWAITING_TOOLS"
      [] OTHER -> "TERMINATED"

----------------------------------------------------------------------------
(* src/main.py: the command-line session *)

Ev(kind, text, call) == [kind |-> kind, text |-> text, call |-> call]

Res(content, tool_call_id) == [content |-> content, tool_call_id |-> tool_call_id]

\* The inner loop over response.tool_calls (main.py 28-47), from call i on.
\* globals().get(name) finds no tool in main.py's namespace; a name it does
\* bind has no .invoke, and the AttributeError leaves the loop.
RECURSIVE CallEvents(_, _)
CallEvents(calls, i) ==
    IF i > Len(calls) THEN [evs |-> <<>>, raised |-> FALSE]
    ELSE LET c == calls[i]
             shown == <<Ev("Using tool", <<c.name>>, c.id),
                        Ev("Arguments", <<"args">>, c.id)>>
         IN IF c.name \in MainGlobals \ FalsyGlobals
            THEN [evs |-> shown, raised |-> TRUE]
            ELSE LET rest == CallEvents(calls, i + 1)
                 IN [evs |-> shown \o rest.evs, raised |-> rest.raised]

\* The body of `for chunk in app.stream(...)` up to the extend (main.py 21-47).
ChunkEvents(response) ==
    IF response.role # "assistant" THEN [evs |-> <<>>, raised |-> FALSE]
    ELSE LET said == IF response.content # <<>>
                     THEN <<Ev("Assistant", response.content, NoId)>>
                     ELSE <<>>
             rest == CallEvents(response.tool_calls, 1)
         IN [evs |-> said \o rest.evs, raised |-> rest.raised]

\* main.py 20: the input app.stream is started on, the whole session list.
StreamInput(msgs) == msgs

\* main.py 12-20: a line is read, appended as a HumanMessage, and app.stream
\* is started on the session list; the first chunk is the input state.
Submit(u) ==
    /\ variant = "main"
    /\ pc = "input"
    /\ turns < MaxTurns
    /\ messages' = Append(messages, HumanMessage(u, nextId))
    /\ nextId' = nextId + 1
    /\ gstate' = add_messages(<<>>, StreamInput(messages'), mergeById)
    /\ next' = "agent"
    /\ phase' = PhaseOf("agent")
    /\ pc' = "chunk"
    /\ events' = <<>>
    /\ outcome' = "none"
    /\ failure' = "none"
    /\ runs' = <<>>
    /\ invoked' = 0
    /\ turns' = turns + 1
    /\ UNCHANGED <<variant, mergeById, cstate, alocal, lastInvoke, retries,
                   batch, results, executed, rounds, rin, rdec, rfb, cin, cout, boot, tin, tloc>>

\* main.py 14-15: 'quit' leaves the session loop.
Quit ==
    /\ variant = "main"
    /\ pc = "input"
    /\ pc' = "quit"
    /\ UNCHANGED <<variant, mergeById, messages, gstate, cstate, alocal, next,
                   phase, events, outcome, lastInvoke, invoked, retries, batch,
                   results, executed, turns, rounds, nextId, failure, runs,
                   rin, rdec, rfb, cin, cout, boot, tin, tloc>>

\* main.py 51-53: what the except clause leaves of the session list: it
\* prints the error and continues with the next input, touching nothing.
AfterFailure_rolledBack(msgs) == <<msgs[1]>>

AfterFailure(msgs) == msgs

\* main.py 21-53: the loop body on the chunk the stream has just yielded.
\* Without an exception the whole chunk is appended to the session list, and
\* the stream is resumed (or, after the last chunk, the next line is read).
ProcessChunk ==
    /\ variant = "main"
    /\ pc = "chunk"
    /\ LET r == ChunkEvents(Last(gstate))
       IN IF r.raised
          THEN /\ events' = events \o r.evs \o <<Ev("An error occurred", <<"AttributeError">>, NoId)>>
               /\ outcome' = "failed"
               /\ failure' = "AttributeError"
               /\ pc' = "input"
               /\ messages' = AfterFailure(messages)
          ELSE /\ events' = events \o r.evs
               /\ messages' = messages \o gstate
               /\ UNCHANGED failure
               /\ outcome' = IF next = END THEN "completed" ELSE outcome
               /\ pc' = IF next = END THEN "input" ELSE "node"
    /\ UNCHANGED <<variant, mergeById, gstate, cstate, alocal, next, phase,
                   lastInvoke, invoked, retries, batch, results, executed,
                   turns, rounds, nextId, runs, rin, rdec, rfb, cin, cout, boot, tin, tloc>>

\* agent.py 46-51 and 39-44: the "agent" node and its conditional edge.
AgentStep(turn) ==
    /\ variant \in {"main", "app"}
    /\ pc = "node"
    /\ next = "agent"
    /\ turn.calls # <<>> => rounds < MaxRounds
    /\ lastInvoke' = ModelInput(gstate)
    /\ invoked' = invoked + 1
    /\ gstate' = add_messages(gstate, <<Response(turn, nextId)>>, mergeById)
    /\ nextId' = nextId + 1
    /\ next' = should_continue(gstate')
    /\ phase' = PhaseOf(next')
    /\ pc' = "chunk"
    /\ UNCHANGED <<variant, mergeById, messages, cstate, alocal, events,
                   outcome, retries, batch, results, executed, turns, rounds,
                   failure, runs, rin, rdec, rfb, cin, cout, boot, tin, tloc>>

\* app.py 54, 57, 35-40: the string each event was yielded as.  The text of
\* a Result event is the tool's name and then its value; line 54 yields
\* f"{tool_call['name']} result: {result}".
Yielded(ev) ==
    CASE ev.kind = "Assistant" -> ev.text
      [] ev.kind = "Using tool" -> <<"Using tool:">> \o ev.text
      [] ev.kind = "Arguments" -> <<"Arguments:">> \o ev.text
      [] ev.kind = "Result" -> <<Head(ev.text), "result:">> \o Tail(ev.text)
      [] OTHER -> <<"An error occurred:">> \o ev.text

\* app.py 114-120: full_response, the yielded chunks joined.
RECURSIVE FullResponse(_)
FullResponse(evs) ==
    IF evs = <<>> THEN <<>>
    ELSE Yielded(Head(evs)) \o FullResponse(Tail(evs))

\* app.py 123: the assistant entry appended to st.session_state.messages
\* once the generator is exhausted.
ChatEntry(evs) == AIMessage(FullResponse(evs), <<>>, 0)

\* model_with_tools.invoke raises (the model cannot be reached): the
\* exception leaves app.stream and main.py 51-53 (app.py 56-57) reports it.
AgentFail ==
    /\ variant \in {"main", "app"}
    /\ pc = "node"
    /\ next = "agent"
    /\ lastInvoke' = ModelInput(gstate)
    /\ invoked' = invoked + 1
    /\ events' = events \o <<Ev("An error occurred", <<"ModelUnavailable">>, NoId)>>
    /\ outcome' = "failed"
    /\ failure' = "ModelUnavailable"
    /\ pc' = "input"
    /\ messages' = IF variant = "app" THEN Append(messages, ChatEntry(events'))
                   ELSE AfterFailure(messages)
    /\ UNCHANGED <<variant, mergeById, gstate, cstate, alocal, next,
                   phase, retries, batch, results, executed, turns, rounds,
                   nextId, runs, rin, rdec, rfb, cin, cout, boot, tin, tloc>>

\* agent.py 29, 55, 59: the "tools" node (ToolNode) and its edge to "agent".
ToolsStep ==
    /\ variant \in {"main", "app"}
    /\ pc = "node"
    /\ next = "tools"
    /\ LET calls == Last(gstate).tool_calls
           out == ToolNode(gstate, nextId)
       IN /\ batch' = calls
          /\ results' = [i \in 1..Len(out) |-> Res(out[i].content, out[i].tool_call_id)]
          /\ executed' = IdsOf(SelectSeq(calls, LAMBDA c : c.name \in AgentTools))
          /\ runs' = runs \o executed'
          /\ gstate' = add_messages(gstate, out, mergeById)
          /\ nextId' = nextId + Len(out)
    /\ rounds' = rounds + 1
    /\ invoked' = 0
    /\ next' = EdgeFromTools
    /\ phase' = PhaseOf(next')
    /\ pc' = "chunk"
    /\ UNCHANGED <<variant, mergeById, messages, cstate, alocal, events,
                   outcome, lastInvoke, retries, turns, failure, rin, rdec,
                   rfb, cin, cout, boot, tin, tloc>>

----------------------------------------------------------------------------
(* src/app.py: the streamlit chat *)

\* app.py 6-7: the tools its module namespace binds.
AppTools == {"get_weather", "get_coolest_cities", "analyze_single_stock_and_fixed_savings"}

\* app.py 1-19, 59: the other names its module namespace binds.  AGENT
\* (line 10) holds the compiled graph once init_agent has run (line 24).
AppGlobals ==
    {"asyncio", "AsyncGenerator", "List", "st", "SystemMessage", "HumanMessage",
     "AIMessage", "create_agent", "SYSTEM_PROMPT", "AGENT", "init_agent",
     "process_agent_message", "main", "__annotations__", "__builtins__",
     "__cached__", "__doc__", "__file__", "__loader__", "__name__",
     "__package__", "__spec__"}

\* float(x) of app.py 49-51 on a value of the model.
PyFloat(v) ==
    IF v.kind = "text"
    THEN IF NumberText(v.s) THEN [ok |-> TRUE, v |-> Num(ParseNumber(v.s))]
         ELSE [ok |-> FALSE, v |-> v]
    ELSE [ok |-> v.kind = "num", v |-> v]

GetOr(args, p, default) == IF HasArg(args, p) THEN ArgOf(args, p) ELSE default

\* app.py 44-52: the arguments the display loop hands to tool.invoke.  Only
\* analyze_single_stock_and_fixed_savings is special-cased.  The three
\* float() calls run in the order of lines 49-51 and the first that fails
\* raises: ValueError on a text that spells no number, TypeError on None, a
\* list or a dict.
DisplayArgs(call) ==
    IF call.name # "analyze_single_stock_and_fixed_savings"
    THEN [raised |-> "none", args |-> call.args]
    ELSE IF ~HasArg(call.args, "monthly_investment")
    THEN [raised |-> "KeyError", args |-> call.args]
    ELSE LET mi == PyFloat(ArgOf(call.args, "monthly_investment"))
             sa == PyFloat(GetOr(call.args, "stock_allocation", Num(1000)))
             sr == PyFloat(GetOr(call.args, "savings_rate", Num(45)))
             kept == {a \in call.args :
                         a[1] \notin {"monthly_investment", "stock_allocation",
                                      "savings_rate"}}
             FloatError(r) == IF r.v.kind = "text" THEN "ValueError" ELSE "TypeError"
         IN IF ~mi.ok \/ ~sa.ok \/ ~sr.ok
            THEN [raised |-> IF ~mi.ok THEN FloatError(mi)
                             ELSE IF ~sa.ok THEN FloatError(sa)
                             ELSE FloatError(sr),
                  args |-> call.args]
            ELSE [raised |-> "none",
                  args |-> kept \cup {<<"monthly_investment", mi.v>>,
                                      <<"stock_allocation", sa.v>>,
                                      <<"savings_rate", sr.v>>}]

\* app.py 42-54 on one tool call: [raised, value, received, invoked], where
\* raised names the exception ("none" when there is none) and invoked tells
\* whether tool.invoke was called.  AGENT is the one other name whose value
\* has an .invoke: the graph is run on the call's arguments, which hold no
\* "messages", and the run raises KeyError; no tool is invoked.  The bodies
\* of the three tools app.py imports return (BodyOutcomes).
DisplayInvoke(call) ==
    IF call.name = "AGENT"
    THEN [raised |-> "KeyError", value |-> <<>>, received |-> {}, invoked |-> FALSE]
    ELSE IF call.name \in AppGlobals \ FalsyGlobals
    THEN [raised |-> "AttributeError", value |-> <<>>, received |-> {}, invoked |-> FALSE]
    ELSE IF call.name \notin AppTools
    THEN [raised |-> "none", value |-> <<>>, received |-> {}, invoked |-> FALSE]
    ELSE LET d == DisplayArgs(call)
         IN IF d.raised # "none"
            THEN [raised |-> d.raised, value |-> <<>>, received |-> {}, invoked |-> FALSE]
            ELSE LET r == ToolInvoke(call.name, d.args, "returns")
                 IN [raised |-> IF r.raised THEN "ValidationError" ELSE "none",
                     value |-> r.value, received |-> r.received, invoked |-> TRUE]

\* The inner loop over response.tool_calls (app.py 38-54), from call i on.
\* An exception leaves the loop and the generator's try block.
RECURSIVE AppCallEvents(_, _)
AppCallEvents(calls, i) ==
    IF i > Len(calls) THEN [evs |-> <<>>, raised |-> "none", ran |-> <<>>]
    ELSE LET c == calls[i]
             shown == <<Ev("Using tool", <<c.name>>, c.id),
                        Ev("Arguments", <<"args">>, c.id)>>
             r == DisplayInvoke(c)
             ran == IF r.invoked THEN <<c.id>> ELSE <<>>
         IN IF r.raised # "none"
            THEN [evs |-> shown, raised |-> r.raised, ran |-> ran]
            ELSE LET rest == AppCallEvents(calls, i + 1)
                     result == IF r.invoked
                               THEN <<Ev("Result", <<c.name>> \o r.value, c.id)>>
                               ELSE <<>>
                 IN [evs |-> shown \o result \o rest.evs, raised |-> rest.raised,
                     ran |-> ran \o rest.ran]

\* The body of `for chunk in agent_app.stream(...)` (app.py 31-54).
AppChunkEvents(response) ==
    IF response.role # "assistant" THEN [evs |-> <<>>, raised |-> "none", ran |-> <<>>]
    ELSE LET said == IF response.content # <<>>
                     THEN <<Ev("Assistant", response.content, NoId)>>
                     ELSE <<>>
             rest == AppCallEvents(response.tool_calls, 1)
         IN [evs |-> said \o rest.evs, raised |-> rest.raised, ran |-> rest.ran]

\* app.py 27: the state the stream is started on, whatever the chat holds.
AppStreamInput(u, id) == <<SystemMessage(SYSTEM_PROMPT, id), HumanMessage(u, id + 1)>>

\* app.py 105-117, 24-30: the prompt is appended to the chat and the
\* generator is started; the first chunk is the input state.
AppSubmit(u) ==
    /\ variant = "app"
    /\ pc = "input"
    /\ turns < MaxTurns
    /\ messages' = Append(messages, HumanMessage(u, 0))
    /\ gstate' = add_messages(<<>>, AppStreamInput(u, nextId), mergeById)
    /\ nextId' = nextId + 2
    /\ next' = "agent"
    /\ phase' = PhaseOf("agent")
    /\ pc' = "chunk"
    /\ events' = <<>>
    /\ outcome' = "none"
    /\ failure' = "none"
    /\ runs' = <<>>
    /\ invoked' = 0
    /\ turns' = turns + 1
    /\ UNCHANGED <<variant, mergeById, cstate, alocal, lastInvoke, retries,
                   batch, results, executed, rounds, rin, rdec, rfb, cin, cout, boot, tin, tloc>>

\* app.py 30-57 and 117-123: the loop body on the chunk the stream has just
\* yielded.  An exception is yielded as the last chunk; once the generator
\* is exhausted the joined chunks are appended to the chat.
AppChunk ==
    /\ variant = "app"
    /\ pc = "chunk"
    /\ \E r \in {AppChunkEvents(Last(gstate))} :
          /\ runs' = runs \o r.ran
          /\ IF r.raised # "none"
             THEN /\ events' = events \o r.evs
                                \o <<Ev("An error occurred", <<r.raised>>, NoId)>>
                  /\ outcome' = "failed"
                  /\ failure' = r.raised
                  /\ pc' = "input"
                  /\ messages' = Append(messages, ChatEntry(events'))
             ELSE /\ events' = events \o r.evs
                  /\ outcome' = IF next = END THEN "completed" ELSE outcome
                  /\ pc' = IF next = END THEN "input" ELSE "node"
                  /\ messages' = IF next = END
                                 THEN Append(messages, ChatEntry(events'))
                                 ELSE messages
                  /\ UNCHANGED failure
    /\ UNCHANGED <<variant, mergeById, gstate, cstate, alocal, next, phase,
                   lastInvoke, invoked, retries, batch, results, executed,
                   turns, rounds, nextId, rin, rdec, rfb, cin, cout, boot, tin, tloc>>

\* app.py 138-140: what "Clear Chat" assigns to st.session_state.messages.
ClearedChat == <<>>

\* app.py 138-140: the "Clear Chat" button, pressed while no message is being
\* processed; the script is rerun on the emptied chat.
AppClear ==
    /\ variant = "app"
    /\ pc = "input"
    /\ messages # <<>>
    /\ messages' = ClearedChat
    /\ UNCHANGED <<variant, mergeById, gstate, cstate, alocal, pc, next, phase,
                   events, outcome, lastInvoke, invoked, retries, batch, results,
                   executed, turns, rounds, nextId, failure, runs, rin, rdec,
                   rfb, cin, cout, boot, tin, tloc>>

----------------------------------------------------------------------------
(* "main copy.py" (src/gradio_main.py 70-357) *)

\* The value of the State["messages"] channel.  The schema declares no
\* reducer, so every node's return value replaces it: it is the input tuple,
\* then the AIMessage the assistant returned ("msg"), then what the tools
\* node returned, a list of result strings ("list") or one string ("str").
\* An element of a list is a (role, content) pair or a plain string.
Pair(role, content) == [isPair |-> TRUE, role |-> role, content |-> content]
Plain(text) == [isPair |-> FALSE, role |-> "", content |-> text]

TupleState(role, content) ==
    [kind |-> "tuple", msg |-> NoMsg, items |-> <<Pair(role, content)>>, text |-> <<>>]
ListState(items) == [kind |-> "list", msg |-> NoMsg, items |-> items, text |-> <<>>]
MsgState(m) == [kind |-> "msg", msg |-> m, items |-> <<>>, text |-> <<>>]
StrState(text) == [kind |-> "str", msg |-> NoMsg, items |-> <<>>, text |-> text]

\* __main__ 332-339: the message the graph is started on.
initial_message == TupleState("user", <<"Calculate profit for a call option">>)

Corrective == Pair("user", <<"Respond with a real output.">>)

\* `for role, content in ...` unpacks an element into two names: a pair
\* unpacks; a string would only if it had exactly two characters, which no
\* tool result has, so it raises ValueError.
Unpacks(item) == item.isPair

\* Assistant.__call__ 100-115: one (role, content) pair as a message list.
PairMessages(item) ==
    CASE item.role = "user" -> <<HumanMessage(item.content, 0)>>
      [] item.role = "assistant" -> <<AIMessage(item.content, <<>>, 0)>>
      [] OTHER -> <<>>

\* Assistant.__call__ 110-115: the loop over a list state; a pair of any
\* other role adds nothing.
ListMessages(items) ==
    LET kept == SelectSeq(items, LAMBDA it : PairMessages(it) # <<>>)
    IN [i \in 1..Len(kept) |-> PairMessages(kept[i])[1]]

\* Assistant.__call__ 100-115: the state converted for the model.  A state
\* that is neither a tuple nor a list converts to the empty list.
Convert(st) ==
    CASE st.kind = "tuple" ->
            [raised |-> FALSE, msgs |-> PairMessages(st.items[1])]
      [] st.kind = "list" ->
            IF \E i \in 1..Len(st.items) : ~Unpacks(st.items[i])
            THEN [raised |-> TRUE, msgs |-> <<>>]
            ELSE [raised |-> FALSE, msgs |-> ListMessages(st.items)]
      [] OTHER -> [raised |-> FALSE, msgs |-> <<>>]

\* tools_condition(state): routes on the channel value itself; only an
\* AIMessage has the attribute tool_calls.
tools_condition(st) ==
    IF st.kind = "msg" /\ st.msg.role = "assistant" /\ st.msg.tool_calls # <<>>
    THEN "tools" ELSE "end"

\* Assistant.__call__ 127-131: the re-prompt test on a turn without tool calls.
IsEmptyResult(result) == result.content = <<>>

\* Assistant.__call__ 119-139: what one iteration does with the model's
\* result: tool calls are tested first and returned for the tools node; only
\* a result without tool calls is tested for emptiness and re-prompted.
AssistantBranch_contentFirst(result) ==
    IF IsEmptyResult(result) THEN "reprompt"
    ELSE IF result.tool_calls # <<>> THEN "tools" ELSE "end"

AssistantBranch(result) ==
    IF result.tool_calls # <<>> THEN "tools"
    ELSE IF IsEmptyResult(result) THEN "reprompt" ELSE "end"

\* Assistant.__call__ 132-135: the local state after the corrective
\* instruction is appended; a str state cannot be concatenated with a list.
Reprompt(st) ==
    CASE st.kind = "tuple" ->
            [raised |-> FALSE, st |-> ListState(<<st.items[1], Corrective>>)]
      [] st.kind = "list" ->
            [raised |-> FALSE, st |-> ListState(Append(st.items, Corrective))]
      [] OTHER -> [raised |-> TRUE, st |-> st]

\* One iteration of the `while True` of Assistant.__call__ (96-139), and,
\* when it returns, the conditional edge of build_graph (307-314).
AssistantInvoke(turn) ==
    /\ variant = "copy"
    /\ pc = "node"
    /\ next = "assistant"
    /\ turn.calls # <<>> => rounds < MaxRounds
    /\ (turn.calls = <<>> /\ turn.content = <<>>) => retries < MaxRetries
    /\ LET conv == Convert(alocal)
           result == Response(turn, nextId)
       IN IF conv.raised
          THEN \* the unpacking raised: the exception leaves graph.stream
               /\ outcome' = "failed"
               /\ failure' = "ValueError"
               /\ pc' = "done"
               /\ UNCHANGED <<cstate, alocal, next, phase, lastInvoke, invoked,
                              retries, nextId>>
          ELSE /\ lastInvoke' = conv.msgs
               /\ invoked' = invoked + 1
               /\ nextId' = nextId + 1
               /\ IF AssistantBranch(result) = "tools"
                  THEN /\ cstate' = MsgState(result)
                       /\ next' = tools_condition(cstate')
                       /\ phase' = PhaseOf(next')
                       /\ pc' = IF next' = "end" THEN "done" ELSE "node"
                       /\ outcome' = IF next' = "end" THEN "completed" ELSE outcome
                       /\ UNCHANGED <<alocal, retries, failure>>
                  ELSE IF AssistantBranch(result) = "reprompt"
                  THEN LET again == Reprompt(alocal)
                       IN IF again.raised
                          THEN /\ outcome' = "failed"
                               /\ failure' = "TypeError"
                               /\ pc' = "done"
                               /\ UNCHANGED <<cstate, alocal, next, phase, retries>>
                          ELSE /\ alocal' = again.st
                               /\ retries' = retries + 1
                               /\ UNCHANGED <<cstate, next, phase, pc, outcome,
                                              failure>>
                  ELSE /\ cstate' = MsgState(result)
                       /\ next' = tools_condition(cstate')
                       /\ phase' = PhaseOf(next')
                       /\ pc' = IF next' = "end" THEN "done" ELSE "node"
                       /\ outcome' = IF next' = "end" THEN "completed" ELSE outcome
                       /\ UNCHANGED <<alocal, retries, failure>>
    /\ UNCHANGED <<variant, mergeById, messages, gstate, events, batch,
                   results, executed, turns, rounds, runs, rin, rdec, rfb, cin,
                   cout, boot, tin, tloc>>

\* tool_node_with_fallback 150-160, from call i on.  A tool call is a dict,
\* which has neither an attribute `args` nor `name`: args is {} and the name
\* is read with .get('name').  An exception leaves the loop.
RECURSIVE FallbackLoop(_, _)
FallbackLoop(calls, i) ==
    IF i > Len(calls) THEN [raised |-> FALSE, out |-> <<>>, ran |-> <<>>, err |-> <<>>]
    ELSE LET name == calls[i].name
         IN IF name \in CopyTools
            THEN LET r == ToolInvoke(name, NoArgs, "returns")
                 IN IF r.raised
                    THEN [raised |-> TRUE, out |-> <<>>, ran |-> <<calls[i].id>>,
                          err |-> r.value]
                    ELSE LET rest == FallbackLoop(calls, i + 1)
                         IN [raised |-> rest.raised, out |-> <<r.value>> \o rest.out,
                             ran |-> <<calls[i].id>> \o rest.ran, err |-> rest.err]
            ELSE LET rest == FallbackLoop(calls, i + 1)
                 IN [raised |-> rest.raised,
                     out |-> <<<<"Tool", name, "not found">>>> \o rest.out,
                     ran |-> rest.ran, err |-> rest.err]

\* tool_node_with_fallback(state) 144-165: what the node returns.
tool_node_with_fallback(st) ==
    IF st.kind = "msg" /\ st.msg.role = "assistant" /\ st.msg.tool_calls # <<>>
    THEN LET r == FallbackLoop(st.msg.tool_calls, 1)
         IN IF r.raised
            THEN [st |-> StrState(<<"Error executing tool:">> \o r.err), ran |-> r.ran]
            ELSE [st |-> ListState([i \in 1..Len(r.out) |-> Plain(r.out[i])]),
                  ran |-> r.ran]
    ELSE [st |-> StrState(<<"No tool calls to execute">>), ran |-> <<>>]

\* What a returned state holds as results: the elements of a list, or the
\* one string.  None of them carries a tool_call_id.
ResultsOf(st) ==
    IF st.kind = "list"
    THEN [i \in 1..Len(st.items) |-> Res(st.items[i].content, NoId)]
    ELSE <<Res(st.text, NoId)>>

\* The "tools" node of build_graph (303, 315) and its edge to "assistant".
ToolsFallback ==
    /\ variant = "copy"
    /\ pc = "node"
    /\ next = "tools"
    /\ LET r == tool_node_with_fallback(cstate)
       IN /\ cstate' = r.st
          /\ alocal' = r.st
          /\ executed' = r.ran
          /\ runs' = runs \o r.ran
          /\ results' = ResultsOf(r.st)
    /\ batch' = cstate.msg.tool_calls
    /\ retries' = 0
    /\ rounds' = rounds + 1
    /\ invoked' = 0
    /\ next' = EdgeFromToolsCopy
    /\ phase' = PhaseOf(next')
    /\ UNCHANGED <<variant, mergeById, messages, gstate, pc, events, outcome,
                   lastInvoke, turns, nextId, failure, rin, rdec, rfb, cin,
                   cout, boot, tin, tloc>>

----------------------------------------------------------------------------
(* The routing functions applied to every message shape *)

NoDecision == "none"

\* No routing function applied yet: the decisions of should_continue (sc),
\* tools_condition (tc) and of the branch of Assistant.__call__ (ab), and how
\* often each router was applied.
NoDecisions ==
    [sc |-> NoDecision, tc |-> NoDecision, ab |-> NoDecision, scN |-> 0, tcN |-> 0]

RouterContents == {<<>>, <<"answer">>, <<"checking">>, <<"nyc, sf">>}

\* Every shape of last message: each role, with and without content; an
\* assistant message with and without tool calls; a tool message with its
\* tool_call_id.
RouterInputs ==
    {SystemMessage(SYSTEM_PROMPT, 1)}
    \cup {HumanMessage(c, 2) : c \in RouterContents}
    \cup {AIMessage(c, <<>>, 3) : c \in RouterContents}
    \cup {AIMessage(c, ToolCalls(b, 3), 3) : c \in RouterContents, b \in Batches}
    \cup {ToolMessage(c, <<3, i>>, 4) : c \in RouterContents, i \in 1..2}

\* should_continue on a state whose last message is rin; it may be applied
\* again to the same state.
ApplyShouldContinue ==
    /\ variant = "router"
    /\ rdec.scN < MaxApplications
    /\ rdec' = [rdec EXCEPT !.sc = should_continue(<<SystemMessage(SYSTEM_PROMPT, 1), rin>>),
                            !.scN = @ + 1]
    /\ UNCHANGED <<variant, mergeById, messages, gstate, cstate, alocal, pc,
                   next, phase, events, outcome, lastInvoke, invoked, retries,
                   batch, results, executed, turns, rounds, nextId, failure, runs, rin, rfb, cin, cout, boot, tin, tloc>>

\* tools_condition on a state whose "messages" is rin; it may be applied
\* again to the same state.
ApplyToolsCondition ==
    /\ variant = "router"
    /\ rdec.tcN < MaxApplications
    /\ rdec' = [rdec EXCEPT !.tc = tools_condition(MsgState(rin)), !.tcN = @ + 1]
    /\ UNCHANGED <<variant, mergeById, messages, gstate, cstate, alocal, pc,
                   next, phase, events, outcome, lastInvoke, invoked, retries,
                   batch, results, executed, turns, rounds, nextId, failure, runs, rin, rfb, cin, cout, boot, tin, tloc>>

\* The branch Assistant.__call__ takes on rin as the model's result.
ApplyAssistantBranch ==
    /\ variant = "router"
    /\ rin.role = "assistant"
    /\ rdec.ab = NoDecision
    /\ rdec' = [rdec EXCEPT !.ab = AssistantBranch(rin)]
    /\ UNCHANGED <<variant, mergeById, messages, gstate, cstate, alocal, pc,
                   next, phase, events, outcome, lastInvoke, invoked, retries,
                   batch, results, executed, turns, rounds, nextId, failure,
                   runs, rin, rfb, cin, cout, boot, tin, tloc>>

NoReturn == [done |-> FALSE, st |-> StrState(<<>>)]

\* tool_node_with_fallback on a state whose "messages" is rin: the graph
\* runs the node on the state tools_condition has sent to "tools" (306-315).
ApplyToolsFallback ==
    /\ variant = "router"
    /\ rdec.tc = "tools"
    /\ ~rfb.done
    /\ rfb' = [done |-> TRUE, st |-> tool_node_with_fallback(MsgState(rin)).st]
    /\ UNCHANGED <<variant, mergeById, messages, gstate, cstate, alocal, pc,
                   next, phase, events, outcome, lastInvoke, invoked, retries,
                   batch, results, executed, turns, rounds, nextId, failure,
                   runs, rin, rdec, cin, cout, boot, tin, tloc>>

----------------------------------------------------------------------------
(* The validation of arguments applied to every declared parameter *)

NoCall == Req("none", NoArgs)
NoReceipt == [node |-> "none", display |-> "none", nodeArgs |-> {}, displayArgs |-> {}]

\* A call that gives every required parameter a value of its kind.
FullArgs(name) ==
    {<<q, CASE FieldType(name, q).kind \in {"int", "float"} -> Num(12000)
            [] FieldType(name, q).kind = "list" -> ListValue
            [] FieldType(name, q).kind = "dict" -> DictValue
            [] FieldType(name, q).kind = "bool" -> Text("True")
            [] OTHER -> Text("x")>> :
        q \in RequiredParams(name)}

\* What the Model Client may give for one parameter: a text that spells a
\* number, a text that does not, a whole number, a number with a fractional
\* part (0.045), None, a list, a dict.
GivenValues ==
    {Text("500"), Text("abc"), Num(12000), Num(45), NoneValue, ListValue, DictValue}

\* Every registered tool, with each declared parameter in turn given as each
\* of these values, or left out.
CoerceInputs ==
    UNION {UNION {{Req(name, {a \in FullArgs(name) : a[1] # q} \cup {<<q, v>>}) :
                      v \in GivenValues}
                  \cup {Req(name, {a \in FullArgs(name) : a[1] # q})} :
                  q \in RequiredParams(name) \cup OptionalParams(name)} :
           name \in AgentTools}

\* ToolNode's tool.invoke on cin (agent.py 29): the validation raised and
\* the function was not entered ("raised"), the function was entered and
\* returned ("invoked"), or it was entered and raised ("failed").
ApplyToolInvoke ==
    /\ variant = "coerce"
    /\ cout.node = "none"
    /\ \E body \in BodyOutcomes(cin.name) :
       \E r \in {ToolInvoke(cin.name, cin.args, body)} :
          cout' = [cout EXCEPT !.node = IF ~r.entered THEN "raised"
                                        ELSE IF r.raised THEN "failed"
                                        ELSE "invoked",
                               !.nodeArgs = r.received]
    /\ UNCHANGED <<variant, mergeById, messages, gstate, cstate, alocal, pc,
                   next, phase, events, outcome, lastInvoke, invoked, retries,
                   batch, results, executed, turns, rounds, nextId, failure,
                   runs, rin, rdec, rfb, cin, boot, tin, tloc>>

\* The display loop's tool.invoke on cin (app.py 42-53).
ApplyDisplayInvoke ==
    /\ variant = "coerce"
    /\ cout.display = "none"
    /\ LET r == DisplayInvoke(cin)
       IN cout' = [cout EXCEPT !.display = IF r.raised # "none" THEN "raised"
                                          ELSE IF r.invoked THEN "invoked"
                                          ELSE "skipped",
                               !.displayArgs = r.received]
    /\ UNCHANGED <<variant, mergeById, messages, gstate, cstate, alocal, pc,
                   next, phase, events, outcome, lastInvoke, invoked, retries,
                   batch, results, executed, turns, rounds, nextId, failure,
                   runs, rin, rdec, rfb, cin, boot, tin, tloc>>

----------------------------------------------------------------------------
(* Specifications *)

\* main.py 6-7: the agent is built and the session list seeded.
----------------------------------------------------------------------------
(* init_agent (src/app.py 10-24) and process_message (src/gradio_main.py 6-8):
   how the agent is created when sessions are served *)

\* The sessions served by one process, each by a thread of its own.
Sessions == {1, 2}

\* AGENT = None (app.py 10); an agent instance is numbered from 1.
None == 0

\* app.py 10: streamlit runs the script from its first line for every
\* message of a session, in a namespace of that run: `AGENT = None` is
\* executed again before the message is processed.
ScriptRun(s) ==
    /\ variant = "boot"
    /\ boot.driver = "app"
    /\ boot.at[s] = "idle"
    /\ boot.served[s] < MaxServed
    /\ boot' = [boot EXCEPT !.AGENT[s] = None, !.at[s] = "check"]
    /\ UNCHANGED <<variant, mergeById, messages, gstate, cstate, alocal, pc,
                   next, phase, events, outcome, lastInvoke, invoked, retries,
                   batch, results, executed, turns, rounds, nextId, failure,
                   runs, rin, rdec, rfb, cin, cout, tin, tloc>>

\* app.py 15: `if AGENT is None` in the run of session s.
InitAgentCheck(s) ==
    /\ variant = "boot"
    /\ boot.at[s] = "check"
    /\ boot' = [boot EXCEPT !.at[s] = IF boot.AGENT[s] = None THEN "create" ELSE "return"]
    /\ UNCHANGED <<variant, mergeById, messages, gstate, cstate, alocal, pc,
                   next, phase, events, outcome, lastInvoke, invoked, retries,
                   batch, results, executed, turns, rounds, nextId, failure,
                   runs, rin, rdec, rfb, cin, cout, tin, tloc>>

\* app.py 16, right-hand side: create_agent() builds a new agent.
InitAgentCreate(s) ==
    /\ variant = "boot"
    /\ boot.at[s] = "create"
    /\ boot' = [boot EXCEPT !.created = @ + 1, !.made[s] = boot.created + 1,
                            !.at[s] = "assign"]
    /\ UNCHANGED <<variant, mergeById, messages, gstate, cstate, alocal, pc,
                   next, phase, events, outcome, lastInvoke, invoked, retries,
                   batch, results, executed, turns, rounds, nextId, failure,
                   runs, rin, rdec, rfb, cin, cout, tin, tloc>>

\* app.py 16, the assignment to the global.
InitAgentAssign(s) ==
    /\ variant = "boot"
    /\ boot.at[s] = "assign"
    /\ boot' = [boot EXCEPT !.AGENT[s] = boot.made[s], !.at[s] = "return"]
    /\ UNCHANGED <<variant, mergeById, messages, gstate, cstate, alocal, pc,
                   next, phase, events, outcome, lastInvoke, invoked, retries,
                   batch, results, executed, turns, rounds, nextId, failure,
                   runs, rin, rdec, rfb, cin, cout, tin, tloc>>

\* app.py 17 and 24-30: `return AGENT` reads the global, and the message of
\* session s is streamed through that agent.
InitAgentReturn(s) ==
    /\ variant = "boot"
    /\ boot.at[s] = "return"
    /\ boot' = [boot EXCEPT !.used[s] = @ \cup {boot.AGENT[s]}, !.served[s] = @ + 1,
                            !.at[s] = "idle"]
    /\ UNCHANGED <<variant, mergeById, messages, gstate, cstate, alocal, pc,
                   next, phase, events, outcome, lastInvoke, invoked, retries,
                   batch, results, executed, turns, rounds, nextId, failure,
                   runs, rin, rdec, rfb, cin, cout, tin, tloc>>

\* gradio_main.py 6-20: process_message builds an agent of its own for the
\* message of session s and streams the message through it.
ProcessMessage(s) ==
    /\ variant = "boot"
    /\ boot.driver = "gradio"
    /\ boot.served[s] < MaxServed
    /\ boot' = [boot EXCEPT !.created = @ + 1, !.made[s] = boot.created + 1,
                            !.used[s] = @ \cup {boot.created + 1},
                            !.served[s] = @ + 1]
    /\ UNCHANGED <<variant, mergeById, messages, gstate, cstate, alocal, pc,
                   next, phase, events, outcome, lastInvoke, invoked, retries,
                   batch, results, executed, turns, rounds, nextId, failure,
                   runs, rin, rdec, rfb, cin, cout, tin, tloc>>

\* Before any message: no agent exists, every session is idle.
Booting(driver) ==
    [driver |-> driver, AGENT |-> [s \in Sessions |-> None], created |-> 0,
     at |-> [s \in Sessions |-> "idle"], made |-> [s \in Sessions |-> None],
     used |-> [s \in Sessions |-> {}], served |-> [s \in Sessions |-> 0]]

----------------------------------------------------------------------------
(* analyze_single_stock_and_fixed_savings
   (src/src/tools/single_stock_and_fixed_savings.py 122-214) *)

\* An allocation is a pair of a key and a value, Num(n) with n in
\* thousandths or a Text.

\* 148: sum(allocations.values()) raises TypeError on a value that is no
\* number.
SumRaises(pairs) == \E a \in pairs : a[2].kind # "num"

\* sum(allocations.values()) of numbers, in thousandths.
RECURSIVE SumOf(_)
SumOf(pairs) ==
    IF pairs = {} THEN 0
    ELSE LET a == CHOOSE x \in pairs : TRUE IN a[2].n + SumOf(pairs \ {a})

\* 148-149: abs(sum(allocations.values()) - 1.0) < 0.0001.
AllocationsValid_any(allocations) == TRUE

AllocationsValid(allocations) == SumOf(allocations) = 1000

\* 152-154: the allocation keys that are no savings account are the symbols.
SymbolsMatch(symbols, allocations, savings) ==
    symbols = {a[1] : a \in {b \in allocations : b[1] \notin savings}}

\* 213-214: `except Exception` catches every exception but the ones that
\* derive from BaseException only.
BaseOnly == {"KeyboardInterrupt", "SystemExit", "GeneratorExit"}

\* What the function returns when exception e is raised inside the try
\* block, and whether e leaves the function.
Handled(e) ==
    IF e \notin BaseOnly
    THEN [at |-> "returned", returned |-> "Error during backtesting", raised |-> "none"]
    ELSE [at |-> "raised", returned |-> "none", raised |-> e]

\* 146-147: pd.to_datetime on start_date and end_date.
StockParseDates ==
    /\ variant = "stock"
    /\ tloc.at = "start"
    /\ IF tin.datesOk
       THEN tloc' = [tloc EXCEPT !.at = "validate"]
       ELSE \E h \in {Handled("DateParseError")} :
               tloc' = [tloc EXCEPT !.at = h.at, !.returned = h.returned,
                                    !.raised = h.raised]
    /\ UNCHANGED <<variant, mergeById, messages, gstate, cstate, alocal, pc,
                   next, phase, events, outcome, lastInvoke, invoked, retries,
                   batch, results, executed, turns, rounds, nextId, failure,
                   runs, rin, rdec, rfb, cin, cout, boot, tin>>

\* 148-155: the two validations, each returning its error string; the sum
\* of the first raises TypeError on a value that is no number.
StockValidate ==
    /\ variant = "stock"
    /\ tloc.at = "validate"
    /\ \E h \in {Handled("TypeError")} :
        tloc' =
          IF SumRaises(tin.allocations)
          THEN [tloc EXCEPT !.at = h.at, !.returned = h.returned,
                            !.raised = h.raised]
          ELSE IF ~AllocationsValid(tin.allocations)
          THEN [tloc EXCEPT !.at = "returned",
                            !.returned = "Error: Asset allocations must sum to 100%"]
          ELSE IF ~SymbolsMatch(tin.symbols, tin.allocations, tin.savings)
          THEN [tloc EXCEPT !.at = "returned",
                            !.returned = "Error: Mismatch between provided symbols and stock allocations"]
          ELSE [tloc EXCEPT !.at = "fetch"]
    /\ UNCHANGED <<variant, mergeById, messages, gstate, cstate, alocal, pc,
                   next, phase, events, outcome, lastInvoke, invoked, retries,
                   batch, results, executed, turns, rounds, nextId, failure,
                   runs, rin, rdec, rfb, cin, cout, boot, tin>>

\* 156-159: fetch_stock_data; the download raises, gives no rows, or gives
\* data.
StockFetch ==
    /\ variant = "stock"
    /\ tloc.at = "fetch"
    /\ \E h \in {Handled("KeyError")} :
          tloc' =
            CASE tin.fetch = "raises" ->
                    [tloc EXCEPT !.fetched = TRUE, !.at = h.at,
                                 !.returned = h.returned, !.raised = h.raised]
              [] tin.fetch = "empty" ->
                    [tloc EXCEPT !.fetched = TRUE, !.at = "returned",
                                 !.returned = "No data available"]
              [] OTHER -> [tloc EXCEPT !.fetched = TRUE, !.at = "backtest"]
    /\ UNCHANGED <<variant, mergeById, messages, gstate, cstate, alocal, pc,
                   next, phase, events, outcome, lastInvoke, invoked, retries,
                   batch, results, executed, turns, rounds, nextId, failure,
                   runs, rin, rdec, rfb, cin, cout, boot, tin>>

\* 161-163 and 97-98: backtest_mixed_portfolio raises ValueError when no
\* investment date has data.
StockBacktest ==
    /\ variant = "stock"
    /\ tloc.at = "backtest"
    /\ \E h \in {Handled("ValueError")} :
          tloc' = IF tin.investmentDates = 0
                  THEN [tloc EXCEPT !.at = h.at, !.returned = h.returned,
                                    !.raised = h.raised]
                  ELSE [tloc EXCEPT !.at = "report"]
    /\ UNCHANGED <<variant, mergeById, messages, gstate, cstate, alocal, pc,
                   next, phase, events, outcome, lastInvoke, invoked, retries,
                   batch, results, executed, turns, rounds, nextId, failure,
                   runs, rin, rdec, rfb, cin, cout, boot, tin>>

\* 165-211: the returns and the report; a period of zero days divides by
\* zero in 1/total_years.
StockReport ==
    /\ variant = "stock"
    /\ tloc.at = "report"
    /\ \E h \in {Handled("ZeroDivisionError")} :
          tloc' = IF tin.days = 0
                  THEN [tloc EXCEPT !.at = h.at, !.returned = h.returned,
                                    !.raised = h.raised]
                  ELSE [tloc EXCEPT !.at = "returned",
                                    !.returned = "Portfolio Backtest Results"]
    /\ UNCHANGED <<variant, mergeById, messages, gstate, cstate, alocal, pc,
                   next, phase, events, outcome, lastInvoke, invoked, retries,
                   batch, results, executed, turns, rounds, nextId, failure,
                   runs, rin, rdec, rfb, cin, cout, boot, tin>>

\* The allocations, symbols and savings accounts the model may give.
StockAllocations ==
    {{<<"AAPL", Num(1000)>>}, {<<"AAPL", Num(600)>>, <<"hysa", Num(400)>>},
     {<<"AAPL", Num(600)>>, <<"hysa", Num(300)>>},
     {<<"AAPL", Num(500)>>, <<"MSFT", Num(500)>>},
     {<<"hysa", Num(1000)>>}, {<<"AAPL", Text("1.0")>>}, {}}

StockInputs ==
    [tool : {"analyze_single_stock_and_fixed_savings"}, datesOk : BOOLEAN,
     symbols : SUBSET {"AAPL", "MSFT"}, allocations : StockAllocations,
     savings : {{}, {"hysa"}}, fetch : {"raises", "empty", "data"},
     investmentDates : {0, 12}, days : {0, 365}]

StockStart == [at |-> "start", fetched |-> FALSE, returned |-> "none", raised |-> "none"]

----------------------------------------------------------------------------
(* calculate_loan (src/src/tools/loan.py 7-120) *)

\* Amounts are whole dollars, loan_term_years is in hundredths of a year and
\* interest_rate in percent; `today` is the day the clock shows.  The inputs are chosen so that every quotient
\* the function computes is a whole number (a monthly rate of 0 or of 1, an
\* amount that the payment formula divides), so the integers below are the
\* floats of the code.

\* b ** n for whole numbers.
RECURSIVE Pow(_, _)
Pow(b, n) == IF n = 0 THEN 1 ELSE b * Pow(b, n - 1)

\* 26: the validation.
LoanInvalid(in) == in.loan_amount <= 0 \/ in.loan_term_years <= 0 \/ in.interest_rate < 0

\* 30: interest_rate / 100 / 12.
MonthlyRate(rate) == rate \div 1200

\* 33: int(loan_term_years * 12).
TotalPayments(years) == (years * 12) \div 100

\* 36-39: the divisor of the monthly payment.
PaymentDivisor(rate, n) == IF rate = 0 THEN n ELSE Pow(1 + rate, n) - 1

\* 36-39: the monthly payment, for a divisor that is not 0.
MonthlyPayment(amount, rate, n) ==
    IF rate = 0 THEN amount \div n
    ELSE (amount * rate * Pow(1 + rate, n)) \div PaymentDivisor(rate, n)

\* The leap years of the calendar relativedelta uses.
IsLeap(y) == y % 4 = 0 /\ (y % 100 # 0 \/ y % 400 = 0)

\* A date is [y, m, d]; the days of month m of year y.
DaysIn(y, m) ==
    CASE m \in {4, 6, 9, 11} -> 30
      [] m = 2 -> IF IsLeap(y) THEN 29 ELSE 28
      [] OTHER -> 31

\* 73: current_date + relativedelta(months=1); the day is cut to the length
\* of the new month.
NextMonth(dt) ==
    LET y == IF dt.m = 12 THEN dt.y + 1 ELSE dt.y
        m == IF dt.m = 12 THEN 1 ELSE dt.m + 1
    IN [y |-> y, m |-> m, d |-> IF dt.d > DaysIn(y, m) THEN DaysIn(y, m) ELSE dt.d]

\* 45: date.today() reads the clock: the days a call may be made on.
Todays ==
    {[y |-> 2024, m |-> 6, d |-> 15], [y |-> 2026, m |-> 10, d |-> 30],
     [y |-> 2099, m |-> 12, d |-> 31]}

\* 42-45: the start dates given: none (date.today()), a date in the format
\* %Y-%m-%d, a date in another format.
NoDate == [y |-> 1, m |-> 1, d |-> 1]
ParsesAsDate(text) == text = "2024-01-31"
ParseDate(text) == [y |-> 2024, m |-> 1, d |-> 31]

Max(a, b) == IF a >= b THEN a ELSE b

\* 26-27: the validation.
LoanValidate ==
    /\ variant = "loan"
    /\ tloc.at = "start"
    /\ tloc' = IF LoanInvalid(tin)
               THEN [tloc EXCEPT !.at = "returned",
                                 !.returned = "Error: Invalid loan parameters"]
               ELSE [tloc EXCEPT !.at = "payment"]
    /\ UNCHANGED <<variant, mergeById, messages, gstate, cstate, alocal, pc,
                   next, phase, events, outcome, lastInvoke, invoked, retries,
                   batch, results, executed, turns, rounds, nextId, failure,
                   runs, rin, rdec, rfb, cin, cout, boot, tin>>

\* 30-39: the monthly rate, the number of payments and the monthly payment;
\* a divisor of 0 raises ZeroDivisionError.
LoanPayment ==
    /\ variant = "loan"
    /\ tloc.at = "payment"
    /\ \E n \in {TotalPayments(tin.loan_term_years)} :
       \E rate \in {MonthlyRate(tin.interest_rate)} :
          tloc' = IF PaymentDivisor(rate, n) = 0
                  THEN [tloc EXCEPT !.at = "raised", !.raised = "ZeroDivisionError",
                                    !.total_payments = n]
                  ELSE [tloc EXCEPT !.at = "date", !.total_payments = n,
                                    !.monthly_payment =
                                        MonthlyPayment(tin.loan_amount, rate, n)]
    /\ UNCHANGED <<variant, mergeById, messages, gstate, cstate, alocal, pc,
                   next, phase, events, outcome, lastInvoke, invoked, retries,
                   batch, results, executed, turns, rounds, nextId, failure,
                   runs, rin, rdec, rfb, cin, cout, boot, tin>>

\* 42-50: the start date and the initial locals; strptime raises ValueError
\* on a text in another format.
LoanStartDate ==
    /\ variant = "loan"
    /\ tloc.at = "date"
    /\ tloc' = IF tin.start_date = "None"
               THEN [tloc EXCEPT !.at = "loop", !.current_date = tin.today,
                                 !.remaining_balance = tin.loan_amount]
               ELSE IF ParsesAsDate(tin.start_date)
               THEN [tloc EXCEPT !.at = "loop",
                                 !.current_date = ParseDate(tin.start_date),
                                 !.remaining_balance = tin.loan_amount]
               ELSE [tloc EXCEPT !.at = "raised", !.raised = "ValueError"]
    /\ UNCHANGED <<variant, mergeById, messages, gstate, cstate, alocal, pc,
                   next, phase, events, outcome, lastInvoke, invoked, retries,
                   batch, results, executed, turns, rounds, nextId, failure,
                   runs, rin, rdec, rfb, cin, cout, boot, tin>>

\* 53-73: one iteration of the schedule loop.
LoanIteration ==
    /\ variant = "loan"
    /\ tloc.at = "loop"
    /\ Len(tloc.schedule) < tloc.total_payments
    /\ \E interest \in {tloc.remaining_balance * MonthlyRate(tin.interest_rate)} :
       \E balance \in {tloc.remaining_balance - (tloc.monthly_payment - interest)} :
          tloc' = [tloc EXCEPT
                     !.total_interest = @ + interest,
                     !.remaining_balance = balance,
                     !.schedule = Append(@, [payment_num |-> Len(tloc.schedule) + 1,
                                             date |-> tloc.current_date,
                                             balance |-> Max(0, balance)]),
                     !.current_date = NextMonth(@)]
    /\ UNCHANGED <<variant, mergeById, messages, gstate, cstate, alocal, pc,
                   next, phase, events, outcome, lastInvoke, invoked, retries,
                   batch, results, executed, turns, rounds, nextId, failure,
                   runs, rin, rdec, rfb, cin, cout, boot, tin>>

\* 76-120: after the loop, the payoff date is read from the last entry of
\* the schedule and the report is returned.
LoanReport ==
    /\ variant = "loan"
    /\ tloc.at = "loop"
    /\ Len(tloc.schedule) = tloc.total_payments
    /\ tloc' = IF tloc.schedule = <<>>
               THEN [tloc EXCEPT !.at = "raised", !.raised = "IndexError"]
               ELSE [tloc EXCEPT !.at = "returned", !.returned = "Loan Analysis Summary"]
    /\ UNCHANGED <<variant, mergeById, messages, gstate, cstate, alocal, pc,
                   next, phase, events, outcome, lastInvoke, invoked, retries,
                   batch, results, executed, turns, rounds, nextId, failure,
                   runs, rin, rdec, rfb, cin, cout, boot, tin>>

\* The arguments the model may give: amounts that the payment formula
\* divides, terms of 0.05, 0.25, 0.5 and 1 year, rates of 0 and 1200 percent.
LoanInputs ==
    [tool : {"calculate_loan"}, loan_amount : {0, 16380, 32760},
     loan_term_years : {0, 5, 25, 50, 100}, interest_rate : {0 - 1200, 0, 1200},
     start_date : {"None", "2024-01-31", "2024/01/01"}, today : Todays]

LoanStart ==
    [at |-> "start", returned |-> "none", raised |-> "none", total_payments |-> 0,
     monthly_payment |-> 0, current_date |-> NoDate, remaining_balance |-> 0,
     total_interest |-> 0, schedule |-> <<>>]

----------------------------------------------------------------------------
(* calculate_home_affordability (src/src/tools/home_affordability.py 13-167) *)

\* Amounts are whole dollars and rates whole percents; interest_rate is 0 in
\* every input, so the mortgage is loan_amount / num_payments.  Ratios are
\* compared after multiplying both sides by 1200 * num_payments, which keeps
\* every term a whole number.

\* 48: the validation.
HomeInvalid(in) == in.annual_income <= 0 \/ in.down_payment < 0

\* 60: num_payments.
NumPayments(in) == in.loan_term_years * 12

\* 54-90: whether calculate_monthly_payment(price) divides by zero: the
\* mortgage by num_payments (62), or down_payment by price (72).
PaymentRaises(in, price) == NumPayments(in) = 0 \/ price = 0

\* 72: (down_payment / price) < 0.2, for a price that is not 0.
NeedsPmi(in, price) ==
    IF price > 0 THEN in.down_payment * 5 < price ELSE in.down_payment * 5 > price

\* 56-78: total_debt_payment * 1200 * num_payments.
TotalDebtScaled(in, price) ==
    LET loan == price - in.down_payment
        n == NumPayments(in)
    IN loan * 1200
       + price * (in.property_tax_rate + in.home_insurance_rate) * n
       + in.monthly_hoa_pmi * 1200 * n
       + (IF NeedsPmi(in, price) THEN loan * n ELSE 0)
       + in.monthly_debt * 1200 * n

\* 89 and 102: payments['back_end_ratio'] <= target_dti.
WithinDti(in, price, target) ==
    TotalDebtScaled(in, price) <= target * in.annual_income * NumPayments(in)

\* 111-113: the targets of the three calls of find_max_price.
Targets(in) == <<in.front_end_dti_ratio, 35, in.max_dti_ratio>>

\* 94-96: the locals of find_max_price at its start.
Bisection(in) == [low |-> 0, high |-> in.annual_income * 5, max_price |-> 0]

\* 127: desired_home_price if desired_home_price else comfortable_max; a
\* desired price of None or 0 is falsy.
AnalysisPrice(in, maxes) ==
    IF in.desired_home_price # 0 THEN in.desired_home_price ELSE maxes[1]

\* 48-49: the validation.
HomeValidate ==
    /\ variant = "home"
    /\ tloc.at = "start"
    /\ tloc' = IF HomeInvalid(tin)
               THEN [tloc EXCEPT !.at = "returned",
                                 !.returned = "Error: Income must be positive and down payment cannot be negative"]
               ELSE [tloc EXCEPT !.at = "search", !.find = Bisection(tin)]
    /\ UNCHANGED <<variant, mergeById, messages, gstate, cstate, alocal, pc,
                   next, phase, events, outcome, lastInvoke, invoked, retries,
                   batch, results, executed, turns, rounds, nextId, failure,
                   runs, rin, rdec, rfb, cin, cout, boot, tin>>

\* 98-106: one iteration of the loop of find_max_price, for the target of
\* the call that is running.
HomeBisect ==
    /\ variant = "home"
    /\ tloc.at = "search"
    /\ tloc.find.high - tloc.find.low > 1000
    /\ \E mid \in {(tloc.find.high + tloc.find.low) \div 2} :
          tloc' = IF PaymentRaises(tin, mid)
                  THEN [tloc EXCEPT !.at = "raised", !.raised = "ZeroDivisionError"]
                  ELSE IF WithinDti(tin, mid, Targets(tin)[Len(tloc.maxes) + 1])
                  THEN [tloc EXCEPT !.find.max_price = mid, !.find.low = mid]
                  ELSE [tloc EXCEPT !.find.high = mid]
    /\ UNCHANGED <<variant, mergeById, messages, gstate, cstate, alocal, pc,
                   next, phase, events, outcome, lastInvoke, invoked, retries,
                   batch, results, executed, turns, rounds, nextId, failure,
                   runs, rin, rdec, rfb, cin, cout, boot, tin>>

\* 108 and 111-113: find_max_price returns max_price, and the next call
\* starts.
HomeFound ==
    /\ variant = "home"
    /\ tloc.at = "search"
    /\ tloc.find.high - tloc.find.low <= 1000
    /\ tloc' = [tloc EXCEPT !.maxes = Append(@, tloc.find.max_price),
                            !.find = Bisection(tin),
                            !.at = IF Len(tloc.maxes) = 2 THEN "analysis" ELSE "search"]
    /\ UNCHANGED <<variant, mergeById, messages, gstate, cstate, alocal, pc,
                   next, phase, events, outcome, lastInvoke, invoked, retries,
                   batch, results, executed, turns, rounds, nextId, failure,
                   runs, rin, rdec, rfb, cin, cout, boot, tin>>

\* 127-167: the payments at the analysis price and the report.
HomeReport ==
    /\ variant = "home"
    /\ tloc.at = "analysis"
    /\ tloc' = IF PaymentRaises(tin, AnalysisPrice(tin, tloc.maxes))
               THEN [tloc EXCEPT !.at = "raised", !.raised = "ZeroDivisionError"]
               ELSE [tloc EXCEPT !.at = "returned",
                                 !.returned = "Home Affordability Analysis"]
    /\ UNCHANGED <<variant, mergeById, messages, gstate, cstate, alocal, pc,
                   next, phase, events, outcome, lastInvoke, invoked, retries,
                   batch, results, executed, turns, rounds, nextId, failure,
                   runs, rin, rdec, rfb, cin, cout, boot, tin>>

\* The arguments the model may give; a desired_home_price of 0 stands for
\* one left out.
HomeInputs ==
    [tool : {"calculate_home_affordability"}, annual_income : {0, 200, 12800},
     down_payment : {0 - 1, 0, 8000}, loan_term_years : {0, 1}, interest_rate : {0},
     monthly_debt : {0, 10000}, monthly_hoa_pmi : {0}, property_tax_rate : {0},
     home_insurance_rate : {0}, desired_home_price : {0, 16000},
     max_dti_ratio : {43}, front_end_dti_ratio : {28}]

HomeStart ==
    [at |-> "start", returned |-> "none", raised |-> "none",
     find |-> [low |-> 0, high |-> 0, max_price |-> 0], maxes |-> <<>>]

----------------------------------------------------------------------------
(* calculate_401k_retirement (src/src/tools/tool_401k.py 5-167) *)

\* Amounts are whole dollars and rates whole percents; annual_return and
\* salary_increase_rate are 0 in every input and the salaries are multiples
\* of 14400, so every amount the loop computes is a whole number.  An
\* optional amount is [given, v]: given is FALSE for None.

\* 54-55: the 2024 IRS limits.
base_contribution_limit == 23000
catch_up_amount == 7500

Min(a, b) == IF a <= b THEN a ELSE b

\* Python's truth value of an optional amount: None and 0 are falsy.
Truthy(opt) == opt.given /\ opt.v # 0

\* 66: the year's allowance, `employer_annual_max_match if
\* employer_annual_max_match else float('inf')`; [limited, left].
AnnualAllowance(opt) ==
    IF Truthy(opt) THEN [limited |-> TRUE, left |-> opt.v]
    ELSE [limited |-> FALSE, left |-> 0]

\* 69-71: annual_limit at an age.
AnnualLimit(in, age) ==
    IF in.catch_up_contributions /\ age >= 50
    THEN base_contribution_limit + catch_up_amount
    ELSE base_contribution_limit

\* 74-76: monthly_salary and monthly_contribution (salary_increase_rate 0).
MonthlySalary(in) == in.annual_salary \div 12
MonthlyContribution(in) == (MonthlySalary(in) * in.contribution_percentage) \div 100

\* 88-94: the month's match before the annual allowance is applied.
MatchBeforeAllowance(in, actual) ==
    LET eligible == Min(((MonthlySalary(in) \div 12) * in.employer_match_limit) \div 100,
                        actual)
        match == (eligible * in.employer_match_percentage) \div 100
    IN IF Truthy(in.employer_match_dollar_limit)
       THEN Min(match, in.employer_match_dollar_limit.v)
       ELSE match

\* 42-51: the validation and the initial locals.
K401Validate ==
    /\ variant = "k401"
    /\ tloc.at = "start"
    /\ tloc' = IF tin.retirement_age <= tin.current_age
               THEN [tloc EXCEPT !.at = "returned",
                                 !.returned = "Error: Retirement age must be greater than current age"]
               ELSE [tloc EXCEPT !.at = "year", !.balance = tin.current_401k_balance]
    /\ UNCHANGED <<variant, mergeById, messages, gstate, cstate, alocal, pc,
                   next, phase, events, outcome, lastInvoke, invoked, retries,
                   batch, results, executed, turns, rounds, nextId, failure,
                   runs, rin, rdec, rfb, cin, cout, boot, tin>>

\* 62-76: the head of the loop over the years and the year's locals; after
\* the last year the report is returned (121-167).
K401Year ==
    /\ variant = "k401"
    /\ tloc.at = "year"
    /\ tloc' = IF tloc.year = tin.retirement_age - tin.current_age
               THEN [tloc EXCEPT !.at = "returned",
                                 !.returned = "401(k) Retirement Analysis"]
               ELSE [tloc EXCEPT !.at = "month", !.month = 0,
                                 !.year_contributions = 0,
                                 !.year_employer_match = 0,
                                 !.remaining = AnnualAllowance(tin.employer_annual_max_match)]
    /\ UNCHANGED <<variant, mergeById, messages, gstate, cstate, alocal, pc,
                   next, phase, events, outcome, lastInvoke, invoked, retries,
                   batch, results, executed, turns, rounds, nextId, failure,
                   runs, rin, rdec, rfb, cin, cout, boot, tin>>

\* 78-105: one iteration of the loop over the months.
K401Month ==
    /\ variant = "k401"
    /\ tloc.at = "month"
    /\ tloc.month < 12
    /\ \E actual \in {Min(MonthlyContribution(tin),
                          AnnualLimit(tin, tin.current_age + tloc.year)
                              - tloc.year_contributions)} :
          IF actual <= 0
          THEN tloc' = [tloc EXCEPT !.month = @ + 1]
          ELSE \E match \in {IF tloc.remaining.limited
                               THEN Min(MatchBeforeAllowance(tin, actual),
                                        tloc.remaining.left)
                               ELSE MatchBeforeAllowance(tin, actual)} :
                  tloc' = [tloc EXCEPT !.month = @ + 1,
                                       !.remaining.left =
                                           IF tloc.remaining.limited THEN @ - match ELSE @,
                                       !.year_contributions = @ + actual,
                                       !.year_employer_match = @ + match,
                                       !.balance = @ + actual + match]
    /\ UNCHANGED <<variant, mergeById, messages, gstate, cstate, alocal, pc,
                   next, phase, events, outcome, lastInvoke, invoked, retries,
                   batch, results, executed, turns, rounds, nextId, failure,
                   runs, rin, rdec, rfb, cin, cout, boot, tin>>

\* 107-119: the end of a year: the year's totals are stored.
K401YearEnd ==
    /\ variant = "k401"
    /\ tloc.at = "month"
    /\ tloc.month = 12
    /\ tloc' = [tloc EXCEPT !.at = "year", !.year = @ + 1,
                            !.yearly_totals =
                                Append(@, [age |-> tin.current_age + tloc.year,
                                           contribution |-> tloc.year_contributions,
                                           employer_match |-> tloc.year_employer_match])]
    /\ UNCHANGED <<variant, mergeById, messages, gstate, cstate, alocal, pc,
                   next, phase, events, outcome, lastInvoke, invoked, retries,
                   batch, results, executed, turns, rounds, nextId, failure,
                   runs, rin, rdec, rfb, cin, cout, boot, tin>>

\* The optional amounts: None, or a number.
Absent == [given |-> FALSE, v |-> 0]
Given(n) == [given |-> TRUE, v |-> n]

\* The arguments the model may give.
K401Inputs ==
    [tool : {"calculate_401k_retirement"}, current_age : {49},
     retirement_age : {49, 51}, annual_salary : {14400, 288000},
     contribution_percentage : {0, 10}, employer_match_percentage : {100},
     employer_match_limit : {50}, current_401k_balance : {0},
     catch_up_contributions : {TRUE},
     employer_match_dollar_limit : {Absent, Given(30)},
     employer_annual_max_match : {Absent, Given(0), Given(120), Given(1000)}]

K401Start ==
    [at |-> "start", returned |-> "none", year |-> 0, month |-> 0,
     year_contributions |-> 0, year_employer_match |-> 0,
     remaining |-> [limited |-> FALSE, left |-> 0], balance |-> 0,
     yearly_totals |-> <<>>]

----------------------------------------------------------------------------
(* calculate_financial_freedom (src/src/tools/financial_freedom.py 9-123) *)

\* Amounts are whole dollars.  monthly_growth_rate is annual_growth_rate /
\* 100 / 12, so an annual rate of 0 or 1200 gives the whole monthly rate 0
\* or 1, and an inflation rate of 0 or 100 multiplies the expenses by 1 or
\* 2: every balance of the loop is a whole number.  `current_year` is the
\* year the clock shows.

\* 46: the cap of the loop, 100 years of months.
MonthsCap == 1200

\* 41: datetime.now().year reads the clock: the years a call may be made in.
CurrentYears == {2026, 2027}

\* 46: the condition of the while loop.
LoopContinues_capOnly(balance, target, months) == months < MonthsCap

LoopContinues(balance, target, months) ==
    balance > target /\ months < MonthsCap

\* 55-61: the balance after a month's savings, growth and expenses.
BalanceAfterMonth(in, balance, expenses) ==
    (balance + in.additional_monthly_savings)
        * (1 + in.annual_growth_rate \div 1200) - expenses

\* 64-65: the expenses after the month, adjusted at the end of a year.
ExpensesAfterMonth(in, expenses, months) ==
    IF in.withdrawal_strategy = "inflation_adjusted" /\ (months + 1) % 12 = 0
    THEN expenses * (1 + in.expected_inflation_rate \div 100)
    ELSE expenses

\* 47-52: the projection stored at the start of each year.
ProjectionsAfterMonth(current_year, projections, balance, expenses, months) ==
    IF months % 12 = 0
    THEN Append(projections, [year |-> current_year + months \div 12,
                              balance |-> balance,
                              monthly_expenses |-> expenses])
    ELSE projections

\* 33-43: the validation and the initial locals.
FreedomValidate ==
    /\ variant = "freedom"
    /\ tloc.at = "start"
    /\ tloc' = IF tin.current_savings <= 0
               THEN [tloc EXCEPT !.at = "returned",
                                 !.returned = "Error: Current savings must be greater than zero."]
               ELSE IF tin.monthly_expenses <= 0
               THEN [tloc EXCEPT !.at = "returned",
                                 !.returned = "Error: Monthly expenses must be greater than zero."]
               ELSE [tloc EXCEPT !.at = "loop",
                                 !.balance = tin.current_savings,
                                 !.monthly_expenses = tin.monthly_expenses]
    /\ UNCHANGED <<variant, mergeById, messages, gstate, cstate, alocal, pc,
                   next, phase, events, outcome, lastInvoke, invoked, retries,
                   batch, results, executed, turns, rounds, nextId, failure,
                   runs, rin, rdec, rfb, cin, cout, boot, tin>>

\* 46-72: one iteration of the loop; the break of 71-72 leaves it.
FreedomIteration ==
    /\ variant = "freedom"
    /\ tloc.at = "loop"
    /\ LoopContinues(tloc.balance, tin.target_end_balance, tloc.months)
    /\ \E b \in {BalanceAfterMonth(tin, tloc.balance, tloc.monthly_expenses)} :
          tloc' = [tloc EXCEPT
                     !.yearly_projections =
                         ProjectionsAfterMonth(tin.current_year, @, tloc.balance,
                                               tloc.monthly_expenses, tloc.months),
                     !.balance = b,
                     !.monthly_expenses =
                         ExpensesAfterMonth(tin, tloc.monthly_expenses, tloc.months),
                     !.months = @ + 1,
                     !.at = IF b <= tin.target_end_balance THEN "after" ELSE "loop"]
    /\ UNCHANGED <<variant, mergeById, messages, gstate, cstate, alocal, pc,
                   next, phase, events, outcome, lastInvoke, invoked, retries,
                   batch, results, executed, turns, rounds, nextId, failure,
                   runs, rin, rdec, rfb, cin, cout, boot, tin>>

\* 46: the condition of the loop fails.
FreedomLoopExit ==
    /\ variant = "freedom"
    /\ tloc.at = "loop"
    /\ ~LoopContinues(tloc.balance, tin.target_end_balance, tloc.months)
    /\ tloc' = [tloc EXCEPT !.at = "after"]
    /\ UNCHANGED <<variant, mergeById, messages, gstate, cstate, alocal, pc,
                   next, phase, events, outcome, lastInvoke, invoked, retries,
                   batch, results, executed, turns, rounds, nextId, failure,
                   runs, rin, rdec, rfb, cin, cout, boot, tin>>

\* 75-123: the report.
FreedomReport ==
    /\ variant = "freedom"
    /\ tloc.at = "after"
    /\ tloc' = [tloc EXCEPT !.at = "returned",
                            !.returned = "Financial Freedom Analysis"]
    /\ UNCHANGED <<variant, mergeById, messages, gstate, cstate, alocal, pc,
                   next, phase, events, outcome, lastInvoke, invoked, retries,
                   batch, results, executed, turns, rounds, nextId, failure,
                   runs, rin, rdec, rfb, cin, cout, boot, tin>>

\* The arguments the model may give.  With the monthly growth rate 1 the
\* balance doubles each month, so those inputs have no additional savings
\* and savings of at most a month's expenses: the balance never grows.
FreedomInputs ==
    {in \in [tool : {"calculate_financial_freedom"},
             current_savings : {0, 10, 1000}, monthly_expenses : {0, 10, 20},
             annual_growth_rate : {0, 1200}, expected_inflation_rate : {0, 100},
             additional_monthly_savings : {0, 20},
             withdrawal_strategy : {"inflation_adjusted", "fixed"},
             target_end_balance : {0, 500}, current_year : CurrentYears] :
        in.annual_growth_rate = 0
            \/ (in.additional_monthly_savings = 0
                  /\ in.current_savings <= in.monthly_expenses)}

FreedomStart ==
    [at |-> "start", returned |-> "none", balance |-> 0, months |-> 0,
     monthly_expenses |-> 0, yearly_projections |-> <<>>]

----------------------------------------------------------------------------
(* Initial states and specifications *)

\* SpecBoot and the tool specifications not started.
NoBoot == [driver |-> "none"]
NoInput == [tool |-> "none"]
NoLocals == [at |-> "none"]

\* No session of the chat programs is running (the specifications of single
\* functions).
NoSession(v) ==
    /\ variant = v
    /\ mergeById = FALSE
    /\ messages = <<>>
    /\ gstate = <<>>
    /\ cstate = StrState(<<>>)
    /\ alocal = StrState(<<>>)
    /\ pc = "done"
    /\ next = "end"
    /\ phase = "TERMINATED"
    /\ events = <<>>
    /\ outcome = "none"
    /\ lastInvoke = <<>>
    /\ invoked = 0
    /\ retries = 0
    /\ batch = <<>>
    /\ results = <<>>
    /\ executed = <<>>
    /\ turns = 0
    /\ rounds = 0
    /\ nextId = 2
    /\ failure = "none"
    /\ runs = <<>>
    /\ rin = NoMsg
    /\ rdec = NoDecisions
    /\ rfb = NoReturn
    /\ cin = NoCall
    /\ cout = NoReceipt

InitBoot ==
    /\ NoSession("boot")
    /\ boot \in {Booting("app"), Booting("gradio")}
    /\ tin = NoInput
    /\ tloc = NoLocals

InitMain ==
    /\ variant = "main"
    /\ mergeById \in BOOLEAN
    /\ messages = <<SystemMessage(SYSTEM_PROMPT, 1)>>
    /\ gstate = <<>>
    /\ cstate = StrState(<<>>)
    /\ alocal = StrState(<<>>)
    /\ pc = "input"
    /\ next = "agent"
    /\ phase = "AWAITING_MODEL"
    /\ events = <<>>
    /\ outcome = "none"
    /\ lastInvoke = <<>>
    /\ invoked = 0
    /\ retries = 0
    /\ batch = <<>>
    /\ results = <<>>
    /\ executed = <<>>
    /\ turns = 0
    /\ rounds = 0
    /\ nextId = 2
    /\ failure = "none"
    /\ runs = <<>>
    /\ rin = NoMsg
    /\ rdec = NoDecisions
    /\ rfb = NoReturn
    /\ cin = NoCall
    /\ cout = NoReceipt
    /\ boot = NoBoot
    /\ tin = NoInput
    /\ tloc = NoLocals

\* main copy.py 321-346: the graph is compiled and started on initial_message.
InitCopy ==
    /\ variant = "copy"
    /\ mergeById = FALSE
    /\ messages = <<>>
    /\ gstate = <<>>
    /\ cstate = initial_message
    /\ alocal = initial_message
    /\ pc = "node"
    /\ next = "assistant"
    /\ phase = "AWAITING_MODEL"
    /\ events = <<>>
    /\ outcome = "none"
    /\ lastInvoke = <<>>
    /\ invoked = 0
    /\ retries = 0
    /\ batch = <<>>
    /\ results = <<>>
    /\ executed = <<>>
    /\ turns = 1
    /\ rounds = 0
    /\ nextId = 2
    /\ failure = "none"
    /\ runs = <<>>
    /\ rin = NoMsg
    /\ rdec = NoDecisions
    /\ rfb = NoReturn
    /\ cin = NoCall
    /\ cout = NoReceipt
    /\ boot = NoBoot
    /\ tin = NoInput
    /\ tloc = NoLocals

\* app.py 69-70: the chat starts empty; the agent is built on first use.
InitApp ==
    /\ variant = "app"
    /\ mergeById = FALSE
    /\ messages = <<>>
    /\ gstate = <<>>
    /\ cstate = StrState(<<>>)
    /\ alocal = StrState(<<>>)
    /\ pc = "input"
    /\ next = "agent"
    /\ phase = "AWAITING_MODEL"
    /\ events = <<>>
    /\ outcome = "none"
    /\ lastInvoke = <<>>
    /\ invoked = 0
    /\ retries = 0
    /\ batch = <<>>
    /\ results = <<>>
    /\ executed = <<>>
    /\ turns = 0
    /\ rounds = 0
    /\ nextId = 2
    /\ failure = "none"
    /\ runs = <<>>
    /\ rin = NoMsg
    /\ rdec = NoDecisions
    /\ rfb = NoReturn
    /\ cin = NoCall
    /\ cout = NoReceipt
    /\ boot = NoBoot
    /\ tin = NoInput
    /\ tloc = NoLocals

InitRouter ==
    /\ variant = "router"
    /\ mergeById = FALSE
    /\ messages = <<>>
    /\ gstate = <<>>
    /\ cstate = StrState(<<>>)
    /\ alocal = StrState(<<>>)
    /\ pc = "done"
    /\ next = "end"
    /\ phase = "TERMINATED"
    /\ events = <<>>
    /\ outcome = "none"
    /\ lastInvoke = <<>>
    /\ invoked = 0
    /\ retries = 0
    /\ batch = <<>>
    /\ results = <<>>
    /\ executed = <<>>
    /\ turns = 0
    /\ rounds = 0
    /\ nextId = 2
    /\ failure = "none"
    /\ runs = <<>>
    /\ rin \in RouterInputs
    /\ rdec = NoDecisions
    /\ rfb = NoReturn
    /\ cin = NoCall
    /\ cout = NoReceipt
    /\ boot = NoBoot
    /\ tin = NoInput
    /\ tloc = NoLocals

InitCoerce ==
    /\ variant = "coerce"
    /\ mergeById = FALSE
    /\ messages = <<>>
    /\ gstate = <<>>
    /\ cstate = StrState(<<>>)
    /\ alocal = StrState(<<>>)
    /\ pc = "done"
    /\ next = "end"
    /\ phase = "TERMINATED"
    /\ events = <<>>
    /\ outcome = "none"
    /\ lastInvoke = <<>>
    /\ invoked = 0
    /\ retries = 0
    /\ batch = <<>>
    /\ results = <<>>
    /\ executed = <<>>
    /\ turns = 0
    /\ rounds = 0
    /\ nextId = 2
    /\ failure = "none"
    /\ runs = <<>>
    /\ rin = NoMsg
    /\ rdec = NoDecisions
    /\ rfb = NoReturn
    /\ cin \in CoerceInputs
    /\ cout = NoReceipt
    /\ boot = NoBoot
    /\ tin = NoInput
    /\ tloc = NoLocals

Init == InitMain \/ InitCopy \/ InitApp

Next ==
    \/ \E u \in UserInputs : Submit(u)
    \/ Quit
    \/ ProcessChunk
    \/ \E u \in UserInputs : AppSubmit(u)
    \/ AppChunk
    \/ AppClear
    \/ \E t \in FinalTurns \cup ToolTurns : AgentStep(t)
    \/ AgentFail
    \/ ToolsStep
    \/ \E t \in FinalTurns \cup ToolTurns : AssistantInvoke(t)
    \/ ToolsFallback

Spec == Init /\ [][Next]_vars

NextRouter ==
    \/ ApplyShouldContinue
    \/ ApplyToolsCondition
    \/ ApplyToolsFallback
    \/ ApplyAssistantBranch

SpecRouter == InitRouter /\ [][NextRouter]_vars

NextCoerce == ApplyToolInvoke \/ ApplyDisplayInvoke

NextBoot ==
    \/ \E s \in Sessions : ScriptRun(s)
    \/ \E s \in Sessions : InitAgentCheck(s)
    \/ \E s \in Sessions : InitAgentCreate(s)
    \/ \E s \in Sessions : InitAgentAssign(s)
    \/ \E s \in Sessions : InitAgentReturn(s)
    \/ \E s \in Sessions : ProcessMessage(s)

SpecBoot == InitBoot /\ [][NextBoot]_vars

InitStock ==
    /\ NoSession("stock")
    /\ boot = NoBoot
    /\ tin \in StockInputs
    /\ tloc = StockStart

NextStock ==
    StockParseDates \/ StockValidate \/ StockFetch \/ StockBacktest \/ StockReport

SpecStock == InitStock /\ [][NextStock]_vars

InitLoan ==
    /\ NoSession("loan")
    /\ boot = NoBoot
    /\ tin \in LoanInputs
    /\ tloc = LoanStart

NextLoan ==
    LoanValidate \/ LoanPayment \/ LoanStartDate \/ LoanIteration \/ LoanReport

SpecLoan == InitLoan /\ [][NextLoan]_vars

InitHome ==
    /\ NoSession("home")
    /\ boot = NoBoot
    /\ tin \in HomeInputs
    /\ tloc = HomeStart

NextHome == HomeValidate \/ HomeBisect \/ HomeFound \/ HomeReport

SpecHome == InitHome /\ [][NextHome]_vars

InitK401 ==
    /\ NoSession("k401")
    /\ boot = NoBoot
    /\ tin \in K401Inputs
    /\ tloc = K401Start

NextK401 == K401Validate \/ K401Year \/ K401Month \/ K401YearEnd

SpecK401 == InitK401 /\ [][NextK401]_vars

InitFreedom ==
    /\ NoSession("freedom")
    /\ boot = NoBoot
    /\ tin \in FreedomInputs
    /\ tloc = FreedomStart

NextFreedom ==
    FreedomValidate \/ FreedomIteration \/ FreedomLoopExit \/ FreedomReport

\* The tool is one call that runs to its end: each step that can be taken
\* is taken.
SpecFreedom == InitFreedom /\ [][NextFreedom]_vars /\ WF_vars(NextFreedom)

SpecCoerce == InitCoerce /\ [][NextCoerce]_vars

----------------------------------------------------------------------------
(* Claims *)

SystemCount(s) == Cardinality({i \in 1..Len(s) : s[i].role = "system"})

Wants(m) == m.role = "assistant" /\ m.tool_calls # <<>>

IsEmptyTurn(m) == m.role = "assistant" /\ m.content = <<>> /\ m.tool_calls = <<>>

\* The registry and the arguments the dispatcher of each program uses.
Registry == IF variant = "copy" THEN CopyTools ELSE AgentTools
PassedArgs(call) == IF variant = "copy" THEN NoArgs ELSE call.args
Raises(call) ==
    call.name \in Registry /\ ToolInvoke(call.name, PassedArgs(call), "returns").raised
Succeeds(call) ==
    call.name \in Registry /\ ~ToolInvoke(call.name, PassedArgs(call), "returns").raised
Mentions(text, word) == \E k \in 1..Len(text) : text[k] = word

\* C1: in every reachable state of a session the message history starts with
\* a system message and holds exactly one system message.
C1_OneLeadingSystemMessage ==
    variant = "main" =>
        /\ messages # <<>>
        /\ messages[1].role = "system"
        /\ SystemCount(messages) = 1

\* The limit the specification recommends for corrective re-prompts.
EmptyRetryLimit == 3

\* C2: the empty-response re-prompts of one assistant call never exceed the
\* retry limit.
C2_RetriesBounded == retries <= EmptyRetryLimit

\* C3: a dispatch batch of N requests produces exactly N results, the i-th
\* carrying the tool_call_id of the i-th request.
C3_OneResultPerRequest ==
    /\ Len(results) = Len(batch)
    /\ \A i \in 1..Len(batch) :
          i <= Len(results) => results[i].tool_call_id = batch[i].id

\* C4: when a call of a batch raises, only that call gets an error result:
\* the batch still has one result per request, the calls that do not raise
\* keep their output, and every registered call of the batch is executed.
C4_FailureIsolatedPerCall ==
    (\E i \in 1..Len(batch) : Raises(batch[i])) =>
        /\ Len(results) = Len(batch)
        /\ \A j \in 1..Len(batch) :
              (j <= Len(results) /\ Succeeds(batch[j])) =>
                  results[j].content = ToolInvoke(batch[j].name, PassedArgs(batch[j]), "returns").value
        /\ \A j \in 1..Len(batch) :
              batch[j].name \in Registry =>
                  \E k \in 1..Len(executed) : executed[k] = batch[j].id

\* C5: a request naming an unregistered tool gets an error result naming it,
\* the other requests of the batch are still dispatched, and the turn does
\* not fail before the Model Client is invoked again.
C5_UnknownToolRecovered ==
    \A i \in 1..Len(batch) :
        batch[i].name \notin Registry =>
            /\ Len(results) = Len(batch)
            /\ i <= Len(results) => Mentions(results[i].content, batch[i].name)
            /\ \A j \in 1..Len(batch) :
                  batch[j].name \in Registry =>
                      \E k \in 1..Len(executed) : executed[k] = batch[j].id
            /\ ~(outcome = "failed" /\ invoked = 0)

\* C6: each routing function chooses the tools node exactly when the last
\* message is an assistant message with tool calls, and ends otherwise.
C6_RouterIffToolCalls ==
    /\ rdec.sc # NoDecision =>
          /\ rdec.sc \in {"tools", END}
          /\ rdec.sc = "tools" <=> Wants(rin)
    /\ rdec.tc # NoDecision =>
          /\ rdec.tc \in {"tools", "end"}
          /\ rdec.tc = "tools" <=> Wants(rin)

\* C6 witness: both functions have ended on an assistant message with empty
\* content and no tool calls.
C6_Witness ==
    /\ IsEmptyTurn(rin)
    /\ rdec.sc = END
    /\ rdec.tc = "end"

\* The latest turn of the Model Client in the graph's state.
LatestTurn == IF variant = "copy" THEN cstate.msg ELSE Last(gstate)

ToTools == phase = "AWAITING_MODEL" /\ phase' = "AWAITING_TOOLS"
ToTerminated == phase = "AWAITING_MODEL" /\ phase' = "TERMINATED"
ToModel == phase = "AWAITING_TOOLS" /\ phase' = "AWAITING_MODEL"

\* C7, as claimed: within one session the phase changes only along
\* AWAITING_MODEL -> AWAITING_TOOLS, AWAITING_MODEL -> TERMINATED and
\* AWAITING_TOOLS -> AWAITING_MODEL.
C7_OnlyThreeEdges ==
    [][phase' # phase => (ToTools \/ ToTerminated \/ ToModel)]_vars

\* C7, amended: the phase changes only along those three edges, each taken
\* on the router's decision and after the dispatch, or by a newly submitted
\* user message, which restarts the cycle at AWAITING_MODEL.
C7_PhaseEdges ==
    [][phase' # phase =>
          \/ ToTools /\ Wants(LatestTurn')
          \/ ToTerminated /\ ~Wants(LatestTurn')
          \/ ToModel /\ rounds' = rounds + 1
          \/ phase' = "AWAITING_MODEL" /\ turns' = turns + 1]_vars

\* C7 witness: the first turn ended with a final answer, a second user
\* message restarted the cycle, and in it a tools phase has been followed by
\* the model phase.
C7_Witness ==
    /\ variant = "main"
    /\ turns = 2
    /\ rounds = 2
    /\ phase = "AWAITING_MODEL"
    /\ pc = "node"
    /\ invoked = 0
    /\ \E i \in 1..Len(messages) :
          messages[i].role = "assistant" /\ ~Wants(messages[i]) /\ messages[i].id < batch[1].id[1]

\* Whether history h holds, directly after the assistant message that
\* requested `batch`, one tool message per request, in order and correlated.
HistoryHasBatch(h) ==
    \E k \in 1..Len(h) :
        /\ h[k].role = "assistant"
        /\ h[k].tool_calls = batch
        /\ k + Len(batch) <= Len(h)
        /\ \A i \in 1..Len(batch) :
              /\ h[k + i].role = "tool"
              /\ h[k + i].tool_call_id = batch[i].id

\* C8: whenever the Model Client is invoked after a dispatch batch, the
\* history it receives holds the batch's tool messages directly after the
\* assistant message that requested them.
C8_HistoryHoldsBatchResults ==
    (batch # <<>> /\ invoked >= 1) => HistoryHasBatch(lastInvoke)

\* C9: every finished turn ends with a terminal event: the final assistant
\* text (Completed) or the reported error (Failed).
C9_TerminalEvent ==
    (variant = "main" /\ pc = "input" /\ turns >= 1) =>
        /\ events # <<>>
        /\ \/ /\ outcome = "completed"
              /\ Last(events) = Ev("Assistant", Last(gstate).content, NoId)
           \/ /\ outcome = "failed"
              /\ Last(events).kind = "An error occurred"

\* C10: when the Model Client's latest turn has neither content nor tool
\* calls, the turn is not ended; in the assistant's loop the corrective
\* instruction is the last message of the state.
C10_EmptyTurnReprompted ==
    /\ (variant = "main" /\ gstate # <<>> /\ IsEmptyTurn(Last(gstate))) =>
          (next # END /\ phase # "TERMINATED")
    /\ (variant = "copy" /\ retries > 0) => Last(alocal.items) = Corrective

\* C11: a turn served by the agent's graph ends as failed only on a Model
\* Client failure: no failure of a tool or of its arguments ends the turn.
C11_OnlyModelFailuresEndTheTurn ==
    (variant \in {"main", "app"} /\ outcome = "failed") => failure = "ModelUnavailable"

UserCount(s) == Cardinality({i \in 1..Len(s) : s[i].role = "user"})

\* C12: the Model Client's first invocation after a submitted user message
\* receives the system message first, the new user message last, and every
\* user message submitted to the session so far.
C12_InvokedWithFullHistory ==
    (variant \in {"main", "app"} /\ invoked = 1 /\ lastInvoke # <<>>
        /\ Last(lastInvoke).role = "user") =>
        /\ lastInvoke[1].role = "system"
        /\ UserCount(messages) >= turns
        /\ UserCount(lastInvoke) >= turns

Occurrences(s, x) == Cardinality({i \in 1..Len(s) : s[i] = x})

\* Whether the graph's state is the one a dispatch has just returned.
JustDispatched == gstate # <<>> /\ Last(gstate).role = "tool"

\* C13: during one turn no tool call is handed to its tool more than once,
\* and once its batch has been dispatched every registered call has been
\* handed to its tool exactly once.
C13_ExecutedExactlyOnce ==
    variant \in {"main", "app"} =>
    /\ \A i \in 1..Len(runs) : Occurrences(runs, runs[i]) = 1
    /\ JustDispatched =>
          \A i \in 1..Len(batch) :
              batch[i].name \in Registry => Occurrences(runs, batch[i].id) = 1

\* C14: when a turn has completed, every announced tool call is followed in
\* the event stream by a result event for the same call, before the turn's
\* last event.
C14_AnnouncedThenResult ==
    (variant \in {"main", "app"} /\ pc = "input" /\ outcome = "completed") =>
        \A i \in 1..Len(events) :
            events[i].kind = "Using tool" =>
                \E j \in (i + 1)..(Len(events) - 1) :
                    /\ events[j].kind = "Result"
                    /\ events[j].call = events[i].call

LacksRequired(call) ==
    /\ call.name \in Registry
    /\ \E q \in RequiredParams(call.name) : ~HasArg(call.args, q)

\* C15: a request that lacks a required parameter never ends the turn; once
\* dispatched it has an error result of its own, the batch has one result per
\* request, and every other registered request of the batch is executed.
C15_MissingArgumentIsolated ==
    variant \in {"main", "app"} =>
    /\ failure \notin {"ValidationError", "KeyError"}
    /\ \A i \in 1..Len(batch) :
          LacksRequired(batch[i]) =>
              /\ Len(results) = Len(batch)
              /\ i <= Len(results) => Mentions(results[i].content, "ValidationError")
              /\ \A j \in 1..Len(batch) :
                    batch[j].name \in Registry =>
                        \E k \in 1..Len(executed) : executed[k] = batch[j].id

\* What the claim asks of the arguments a tool's function received.
Conforms(name, given, received) ==
    /\ \A a \in received : a[1] \in NumericParams(name) => a[2].kind # "text"
    /\ \A a \in given :
          (a[1] \in NumericParams(name) /\ a[2].kind = "text") =>
              <<a[1], Num(ParseNumber(a[2].s))>> \in received
    /\ \A d \in Defaults(name) : ~HasArg(given, d[1]) => d \in received

\* C16: whenever a tool's function is entered, by the tools node or by the
\* display loop, every numeric parameter given as text has been converted to
\* the number it spells, every optional parameter left out has its declared
\* default, and no numeric parameter holds a text.
C16_NumericArgumentsCoerced ==
    /\ cout.node \in {"invoked", "failed"} =>
          Conforms(cin.name, cin.args, cout.nodeArgs)
    /\ cout.display = "invoked" => Conforms(cin.name, cin.args, cout.displayArgs)

\* C16 witness: monthly_investment arrived as the text "500" and both the
\* tools node and the display loop invoked the tool with the number 500.
C16_Witness ==
    /\ cin.name = "analyze_single_stock_and_fixed_savings"
    /\ <<"monthly_investment", Text("500")>> \in cin.args
    /\ cout.node = "invoked"
    /\ cout.display = "invoked"
    /\ <<"monthly_investment", Num(500000)>> \in cout.nodeArgs
    /\ <<"monthly_investment", Num(500000)>> \in cout.displayArgs

\* C17: whenever a system message is added to a session list that already
\* holds one, the step fails with InvariantViolation.
C17_SecondSystemMessageFails ==
    [][(SystemCount(messages) >= 1 /\ SystemCount(messages') > SystemCount(messages)) =>
          (outcome' = "failed" /\ failure' = "InvariantViolation")]_vars

\* The number of steps a compiled graph runs before it stops the run
\* (langgraph's default recursion_limit), the only limit on the cycle.
RecursionLimit == 25

\* C18: the Model Client is never invoked more often for one submitted
\* message, without a dispatch in between, than the limit on the steps of a
\* run allows.
C18_CycleBounded == invoked <= RecursionLimit

\* C19: in every session the tools node is entered only when the latest
\* assistant message has tool calls, so every batch it has executed held a
\* request, and no state without tool calls is ever handed to it.
C19_DispatcherOnlyOnToolCalls ==
    /\ (pc = "node" /\ next = "tools") => Wants(LatestTurn)
    /\ rounds > 0 => batch # <<>>

\* C19 witness: the tools node has run on a batch of two requests.
C19_Witness ==
    /\ rounds = 1
    /\ Len(batch) = 2
    /\ Len(results) = 2

\* C20: once a turn is TERMINATED, nothing but a new user message invokes the
\* Model Client, dispatches or changes the phase; a new user message puts the
\* session at AWAITING_MODEL, it is appended to the session's history and the
\* graph is started on every message the history held, the new user message
\* last.
C20_TerminatedUntilNextMessage ==
    [][/\ (phase = "TERMINATED" /\ turns' = turns) =>
             /\ phase' = phase
             /\ lastInvoke' = lastInvoke
             /\ invoked' = invoked
             /\ rounds' = rounds
             /\ runs' = runs
       /\ (variant \in {"main", "app"} /\ turns' = turns + 1) =>
             /\ phase' = "AWAITING_MODEL"
             /\ Len(messages') = Len(messages) + 1
             /\ \A i \in 1..Len(messages) : messages'[i] = messages[i]
             /\ Last(messages').role = "user"
             /\ Last(gstate').content = Last(messages').content
             /\ \A i \in 1..Len(messages) :
                   \E j \in 1..Len(gstate') :
                      /\ gstate'[j].role = messages[i].role
                      /\ gstate'[j].content = messages[i].content]_vars

\* C21: an assistant turn with tool calls and no content is sent to the
\* tools node by both routers and by Assistant.__call__, and the re-prompt
\* branch is taken only on a turn with neither content nor tool calls.
C21_ToolCallsOnlyTurnIsValid ==
    /\ (rin.role = "assistant" /\ rin.tool_calls # <<>> /\ rin.content = <<>>) =>
          /\ rdec.sc # NoDecision => rdec.sc = "tools"
          /\ rdec.tc # NoDecision => rdec.tc = "tools"
          /\ rdec.ab # NoDecision => rdec.ab = "tools"
    /\ rdec.ab = "reprompt" => (rin.content = <<>> /\ rin.tool_calls = <<>>)

\* C21 witness: a turn of tool calls without content went through both
\* routers and the assistant's branch, each choosing the tools node.
C21_Witness ==
    /\ rin.role = "assistant"
    /\ rin.tool_calls # <<>>
    /\ rin.content = <<>>
    /\ rdec.sc = "tools"
    /\ rdec.tc = "tools"
    /\ rdec.ab = "tools"

\* The histories a last message may follow: none, a user message, a first
\* turn with a tool call and its result.
RouterHistories ==
    {<<SystemMessage(SYSTEM_PROMPT, 1)>>,
     <<SystemMessage(SYSTEM_PROMPT, 1), HumanMessage(<<"hi">>, 5)>>,
     <<SystemMessage(SYSTEM_PROMPT, 1), HumanMessage(<<"hi">>, 5),
       AIMessage(<<>>, ToolCalls(<<rCities>>, 6), 6),
       ToolMessage(<<"nyc, sf">>, <<6, 1>>, 7)>>}

\* C25: the decision a router has given on a last message is the decision it
\* gives on that message again, whatever precedes the message in the history
\* and whatever else has been applied to it in between; and a step that
\* applies a router leaves the message and every other variable as they
\* were, the record of the decision apart.
C25_RouterIsPure ==
    [][/\ rdec'.scN >= 1 =>
             \A h \in RouterHistories : should_continue(h \o <<rin'>>) = rdec'.sc
       /\ rdec'.tcN >= 1 => tools_condition(MsgState(rin')) = rdec'.tc
       /\ (rdec.scN >= 1 /\ rdec'.scN = rdec.scN + 1) => rdec'.sc = rdec.sc
       /\ (rdec.tcN >= 1 /\ rdec'.tcN = rdec.tcN + 1) => rdec'.tc = rdec.tc
       /\ (rdec'.scN # rdec.scN \/ rdec'.tcN # rdec.tcN) =>
             UNCHANGED <<variant, mergeById, messages, gstate, cstate, alocal, pc,
                         next, phase, events, outcome, lastInvoke, invoked,
                         retries, batch, results, executed, turns, rounds, nextId,
                         failure, runs, rin, rfb, cin, cout, boot, tin, tloc>>]_vars

\* C25 witness: both routers were applied twice to a final answer, after the
\* branch of the assistant was taken on it, and both still say end.
C25_Witness ==
    /\ rdec.scN = 2
    /\ rdec.tcN = 2
    /\ rin.role = "assistant"
    /\ rin.tool_calls = <<>>
    /\ rin.content = <<"answer">>
    /\ rdec.ab = "end"
    /\ rdec.sc = END
    /\ rdec.tc = "end"

\* C22: whenever the stored chat of a session is cleared, what is left is
\* exactly the system message.
C22_ClearLeavesSystemMessage ==
    [][(variant = "app" /\ Len(messages') < Len(messages)) =>
          (Len(messages') = 1 /\ messages'[1].role = "system")]_vars

\* C23: at most one agent is ever created, and every session that has been
\* served used that one agent.
C23_OneAgentForAll ==
    /\ boot.created <= 1
    /\ \A s \in Sessions : boot.used[s] \subseteq {1}

\* C24: in a main.py session no step removes or changes a message of the
\* session list, and the step on which a turn fails leaves the list exactly
\* as the turn had built it.
C24_HistoryNeverRolledBack ==
    [][variant = "main" =>
          /\ Len(messages') >= Len(messages)
          /\ \A i \in 1..Len(messages) : messages'[i] = messages[i]
          /\ (outcome' = "failed" /\ outcome # "failed") => messages' = messages]_vars

\* C24 witness: a main.py turn failed after its tool request and the tool's
\* result had been appended, and both are still in the session list.
C24_Witness ==
    /\ variant = "main"
    /\ outcome = "failed"
    /\ turns = 1
    /\ \E i \in 1..Len(messages) :
          messages[i].role = "assistant" /\ messages[i].tool_calls # <<>>
    /\ \E i \in 1..Len(messages) : messages[i].role = "tool"

\* C26: analyze_single_stock_and_fixed_savings never lets an exception out;
\* an exception inside it is returned as the 'Error during backtesting'
\* string; and when the allocations do not sum to 1, or the symbols are not
\* the non-savings allocation keys, it returns an error string without
\* having fetched stock data.
C26_StockToolNeverRaises ==
    /\ tloc.raised = "none"
    /\ tloc.at # "raised"
    /\ (tloc.at = "returned"
          /\ (~tin.datesOk \/ SumRaises(tin.allocations)
               \/ (tloc.fetched /\ tin.fetch = "raises"))) =>
          tloc.returned = "Error during backtesting"
    /\ (tloc.at = "returned"
          /\ (SumRaises(tin.allocations) \/ SumOf(tin.allocations) # 1000
               \/ ~SymbolsMatch(tin.symbols, tin.allocations, tin.savings))) =>
          /\ ~tloc.fetched
          /\ tloc.returned \in
                {"Error: Asset allocations must sum to 100%",
                 "Error: Mismatch between provided symbols and stock allocations",
                 "Error during backtesting"}

\* C26 witness: allocations summing to 0.9 were refused with the allocation
\* error before any data was fetched.
C26_Witness ==
    /\ variant = "stock"
    /\ SumOf(tin.allocations) = 900
    /\ tloc.at = "returned"
    /\ tloc.returned = "Error: Asset allocations must sum to 100%"
    /\ ~tloc.fetched

\* C27: on arguments that pass its validation calculate_loan raises
\* nothing, and when it has returned it has returned the report, with a
\* schedule of int(loan_term_years * 12) >= 1 entries numbered from 1, each
\* dated one month after the one before and with a balance >= 0.
C27_LoanReportForValidInput ==
    ~LoanInvalid(tin) =>
        /\ tloc.raised = "none"
        /\ tloc.at = "returned" =>
              /\ tloc.returned = "Loan Analysis Summary"
              /\ Len(tloc.schedule) = TotalPayments(tin.loan_term_years)
              /\ Len(tloc.schedule) >= 1
              /\ \A i \in 1..Len(tloc.schedule) :
                    /\ tloc.schedule[i].payment_num = i
                    /\ tloc.schedule[i].balance >= 0
                    /\ i > 1 => tloc.schedule[i].date = NextMonth(tloc.schedule[i - 1].date)

\* C28: on arguments with annual_income > 0 and down_payment >= 0
\* calculate_home_affordability raises nothing, and when it has returned it
\* has returned the analysis, also when desired_home_price is left out and
\* the maximum comfortable price found is 0.
C28_HomeAnalysisForValidInput ==
    ~HomeInvalid(tin) =>
        /\ tloc.raised = "none"
        /\ tloc.at = "returned" => tloc.returned = "Home Affordability Analysis"

\* C29: when employer_annual_max_match is supplied, 0 included, the match
\* accumulated in the running year and in every stored year is at most
\* employer_annual_max_match, and the remaining allowance is never negative.
C29_AnnualMatchCapped ==
    tin.employer_annual_max_match.given =>
        /\ tloc.year_employer_match <= tin.employer_annual_max_match.v
        /\ \A i \in 1..Len(tloc.yearly_totals) :
              tloc.yearly_totals[i].employer_match <= tin.employer_annual_max_match.v
        /\ tloc.remaining.limited => tloc.remaining.left >= 0

\* C30: the projection loop ends for every validated input after at most
\* 1200 iterations: an iteration starts only with the balance above
\* target_end_balance and fewer than 1200 months done, the loop is left with
\* the balance at or below the target or with 1200 months done, and the tool
\* returns.
C30_ProjectionLoopTerminates ==
    /\ [][tloc'.months # tloc.months =>
             /\ tloc.balance > tin.target_end_balance
             /\ tloc.months < MonthsCap
             /\ tloc'.months = tloc.months + 1]_vars
    /\ [](tloc.months <= MonthsCap)
    /\ [](tloc.at = "after" =>
             tloc.balance <= tin.target_end_balance \/ tloc.months = MonthsCap)
    /\ <>(tloc.at = "returned")

\* The loop ran to its cap of 1200 months with the balance above the target.
C30_Witness ==
    /\ tloc.at = "returned"
    /\ tloc.months = MonthsCap
    /\ tloc.balance > tin.target_end_balance

====
